---- MODULE Spec2Model ----
(***************************************************************************)
(* The gateway routing subsystem of x402-open: the peer registry, the      *)
(* sticky router and the verify/settle forwarding handlers of the HTTP     *)
(* gateway adapter, as a state machine over a millisecond clock.           *)
(***************************************************************************)
EXTENDS Integers, Sequences, FiniteSets, TLC

\* ------------------------------------------------------------- constants

VERIFY_TIMEOUT == 10000
SETTLE_TIMEOUT == 30000
SELECTION_TTL_MS == 60000
REGISTRY_TTL_MS == 120000
CLEANUP_INTERVAL_MS == 30000

\* ---------------------------------------------------------------- bounds

\* The clock stops advancing once it has reached MaxTime (ms).
MaxTime == 150000
\* Request slots: how many verify/settle requests may be in progress at once.
MaxInFlight == 1
\* How many verify/settle requests arrive in one behaviour.
MaxRequests == 2
\* How many POST /register requests arrive in one behaviour.
MaxRegisters == 1
\* POST /register requests arrive until this time (ms).
MaxRegisterTime == 0

\* ------------------------------------------------------- JavaScript values

\* A string is a sequence of one-character strings.
Undefined == [t |-> "undefined", v |-> <<>>]
Str(s) == [t |-> "string", v |-> s]
Num(s) == [t |-> "number", v |-> s]

\* JavaScript truthiness of the values above.
Truthy(x) ==
  \/ x.t = "string" /\ x.v # <<>>
  \/ x.t = "number" /\ x.v # <<"0">>

\* x ?? y
Coalesce(x, y) == IF x.t = "undefined" THEN y ELSE x

LowerChar(c) ==
  CASE c = "A" -> "a"
    [] c = "B" -> "b"
    [] c = "C" -> "c"
    [] OTHER -> c

\* String.prototype.toLowerCase
toLowerCase(x) == Str([i \in 1..Len(x.v) |-> LowerChar(x.v[i])])

\* ------------------------------------------------------------------ URLs

\* A URL is its scheme prefix, the rest of its text without trailing slashes,
\* and the number of trailing slashes: the parts the code looks at.
Url(s, h, n) == [scheme |-> s, host |-> h, slashes |-> n]

\* url.replace(/\/$/, ""): strips one trailing slash.
normalizeUrl(url) ==
  IF url.slashes > 0 THEN [url EXCEPT !.slashes = @ - 1] ELSE url

PeerA == Url("http://", "A", 0)
PeerB == Url("http://", "B", 0)
PeerC == Url("http://", "C", 0)
\* undefined, where a peer is expected
NoPeer == Url("", "", 0)

\* ------------------------------------------------------- sequence helpers

SeqToSet(s) == {s[i] : i \in 1..Len(s)}

RECURSIVE SelectSeqIdx(_, _, _)
\* The subsequence of s at the indices i with keep[i], in order.
SelectSeqIdx(s, keep, i) ==
  IF i > Len(s) THEN <<>>
  ELSE (IF keep[i] THEN <<s[i]>> ELSE <<>>) \o SelectSeqIdx(s, keep, i + 1)

\* Insertion order of a JavaScript Set built by adding s[1], s[2], ...
Dedup(s) ==
  SelectSeqIdx(s, [i \in 1..Len(s) |-> \A j \in 1..(i - 1) : s[j] # s[i]], 1)

\* All orderings of the elements of the set S.
Orderings(S) ==
  {f \in [1..Cardinality(S) -> S] : \A i, j \in 1..Cardinality(S) : i # j => f[i] # f[j]}

\* --------------------------------------------------------- request bodies

\* A request body (ForwardBody), flattened:
\*   paymentHeader, paymentPayload present?, paymentPayload.header,
\*   paymentPayload.payload.transaction,
\*   paymentPayload.payload.authorization.from, paymentRequirements present?
Body(ph, pp, hd, tx, fr, rq) ==
  [paymentHeader |-> ph, hasPayload |-> pp, header |-> hd, transaction |-> tx,
   from |-> fr, hasRequirements |-> rq]

EvmBody == Body(Undefined, TRUE, Undefined, Undefined, Str(<<"A", "b">>), TRUE)
LegacyBody == Body(Str(<<"h">>), FALSE, Undefined, Undefined, Undefined, TRUE)
SolanaBody == Body(Undefined, TRUE, Undefined, Str(<<"t">>), Undefined, TRUE)
EvmHeaderBody == Body(Undefined, TRUE, Str(<<"h">>), Undefined, Str(<<"a", "B">>), TRUE)
NoKeyBody == Body(Undefined, TRUE, Undefined, Undefined, Undefined, TRUE)
NumericFromBody == Body(Undefined, TRUE, Str(<<"h">>), Undefined, Num(<<"7">>), TRUE)

\* The bodies POST /verify and POST /settle are called with.
Bodies == {EvmBody, LegacyBody, NoKeyBody, NumericFromBody}

getHeaderFromBody(body) ==
  IF Truthy(body.paymentHeader) THEN body.paymentHeader
  ELSE IF body.hasPayload /\ Truthy(body.header) /\ body.header.t = "string"
    THEN body.header
  ELSE IF body.hasPayload /\ body.transaction.t = "string" /\ Len(body.transaction.v) > 0
    THEN body.transaction
  ELSE Undefined

getPayerFromBody(body) == IF body.hasPayload THEN body.from ELSE Undefined

\* normalizeForwardBody that rewrites the legacy shape to an empty payload.
normalizeForwardBodyDropsHeader(inbound) ==
  IF inbound.hasPayload /\ inbound.hasRequirements THEN inbound
  ELSE IF Truthy(inbound.paymentHeader) /\ inbound.hasRequirements
    THEN Body(Undefined, TRUE, Undefined, Undefined, Undefined, TRUE)
  ELSE inbound

normalizeForwardBody(inbound) ==
  IF inbound.hasPayload /\ inbound.hasRequirements THEN inbound
  ELSE IF Truthy(inbound.paymentHeader) /\ inbound.hasRequirements
    THEN Body(Undefined, TRUE, inbound.paymentHeader, Undefined, Undefined, TRUE)
  ELSE inbound

\* -------------------------------------------------------- peer responses

\* A peer's response body: a JSON object with an optional payer field, or a
\* non-object value (the boolean true of the end-to-end test).
ObjBody(p) == [t |-> "object", payer |-> p]
TrueBody == [t |-> "boolean", payer |-> Undefined]

getPayerFromVerifyResponse(respBody) ==
  IF respBody.t = "object" /\ respBody.payer.t = "string" /\ Len(respBody.payer.v) > 0
    THEN respBody.payer
  ELSE Undefined

PeerResponse(s, b) == [status |-> s, body |-> b]

\* What a peer may answer to one call.
PeerResponses ==
  {PeerResponse(200, TrueBody),
   PeerResponse(200, ObjBody(Str(<<"c">>))),
   PeerResponse(400, ObjBody(Undefined)),
   PeerResponse(500, TrueBody)}

\* undefined, where a PeerResponse is expected
NoResponse == PeerResponse(0, TrueBody)

\* ---------------------------------------------------------- StickyRouter

StickyEntry(p, e) == [peer |-> p, expiresAt |-> e]

\* Map.prototype.set
MapSet(m, k, v) == [x \in (DOMAIN m) \cup {k} |-> IF x = k THEN v ELSE m[x]]

\* Map.prototype.delete of every key in ks
MapDelete(m, ks) == [x \in (DOMAIN m) \ ks |-> m[x]]

EmptyMap == [x \in {} |-> StickyEntry(NoPeer, 0)]

\* recordSelection that leaves an entry already present as it is.
recordSelectionKeepsFirst(sp, sh, peer, body, verifyResponseBody, t) ==
  LET payer == Coalesce(getPayerFromVerifyResponse(verifyResponseBody), getPayerFromBody(body))
      key == getHeaderFromBody(body)
      entry == StickyEntry(peer, t + SELECTION_TTL_MS)
  IN IF Truthy(payer) /\ payer.t # "string"
       THEN [threw |-> TRUE, byPayer |-> sp, byHeader |-> sh]
       ELSE [threw |-> FALSE,
             byPayer |-> IF Truthy(payer) /\ toLowerCase(payer) \notin DOMAIN sp
                           THEN MapSet(sp, toLowerCase(payer), entry) ELSE sp,
             byHeader |-> IF Truthy(key) /\ key \notin DOMAIN sh
                            THEN MapSet(sh, key, entry) ELSE sh]

\* recordSelection on the maps (sp, sh) at time t. payer.toLowerCase() raises
\* a TypeError when payer is truthy and not a string; nothing is written then.
recordSelection(sp, sh, peer, body, verifyResponseBody, t) ==
  LET payer == Coalesce(getPayerFromVerifyResponse(verifyResponseBody), getPayerFromBody(body))
      key == getHeaderFromBody(body)
      entry == StickyEntry(peer, t + SELECTION_TTL_MS)
  IN IF Truthy(payer) /\ payer.t # "string"
       THEN [threw |-> TRUE, byPayer |-> sp, byHeader |-> sh]
       ELSE [threw |-> FALSE,
             byPayer |-> IF Truthy(payer) THEN MapSet(sp, toLowerCase(payer), entry) ELSE sp,
             byHeader |-> IF Truthy(key) THEN MapSet(sh, key, entry) ELSE sh]

\* getPreferredPeer comparing expiresAt >= now: an entry is still returned at
\* the instant it expires.
getPreferredPeerInclusive(sp, sh, body, t) ==
  LET from == getPayerFromBody(body)
      payer == IF from.t = "string" THEN toLowerCase(from) ELSE Undefined
      key == getHeaderFromBody(body)
  IN IF from.t \notin {"undefined", "string"}
       THEN [threw |-> TRUE, peer |-> NoPeer]
     ELSE IF Truthy(payer) /\ payer \in DOMAIN sp /\ sp[payer].expiresAt >= t
       THEN [threw |-> FALSE, peer |-> sp[payer].peer]
     ELSE IF Truthy(key) /\ key \in DOMAIN sh /\ sh[key].expiresAt >= t
       THEN [threw |-> FALSE, peer |-> sh[key].peer]
     ELSE [threw |-> FALSE, peer |-> NoPeer]

\* getPreferredPeer on the maps (sp, sh) at time t. The optional call
\* ?.toLowerCase() skips undefined only: any other non-string raises.
getPreferredPeer(sp, sh, body, t) ==
  LET from == getPayerFromBody(body)
      payer == IF from.t = "string" THEN toLowerCase(from) ELSE Undefined
      key == getHeaderFromBody(body)
  IN IF from.t \notin {"undefined", "string"}
       THEN [threw |-> TRUE, peer |-> NoPeer]
     ELSE IF Truthy(payer) /\ payer \in DOMAIN sp /\ sp[payer].expiresAt > t
       THEN [threw |-> FALSE, peer |-> sp[payer].peer]
     ELSE IF Truthy(key) /\ key \in DOMAIN sh /\ sh[key].expiresAt > t
       THEN [threw |-> FALSE, peer |-> sh[key].peer]
     ELSE [threw |-> FALSE, peer |-> NoPeer]

\* cleanup deleting when expiresAt < now.
stickyCleanupLate(m, t) == MapDelete(m, {k \in DOMAIN m : m[k].expiresAt < t})

\* StickyRouter.cleanup on one of the two maps
stickyCleanup(m, t) == MapDelete(m, {k \in DOMAIN m : m[k].expiresAt <= t})

\* ---------------------------------------------------------- PeerRegistry

\* The kinds argument of register: undefined, or an array of the names of
\* payment kinds.
NoKinds == [t |-> "undefined", v |-> <<>>]
Kinds(ks) == [t |-> "array", v |-> ks]

\* The registered map, in insertion order: a sequence of RegisteredPeer.
RegisteredPeer(u, ks, t) == [url |-> u, kinds |-> ks, lastSeenMs |-> t]

\* register that leaves an entry already present as it is.
registerOnce(reg, url, kinds, t) ==
  IF \E i \in 1..Len(reg) : reg[i].url = url
    THEN reg
    ELSE Append(reg, RegisteredPeer(url, kinds, t))

\* Map.set on a key that is present keeps the key's place in the order.
register(reg, url, kinds, t) ==
  IF \E i \in 1..Len(reg) : reg[i].url = url
    THEN [i \in 1..Len(reg) |->
           IF reg[i].url = url THEN RegisteredPeer(url, kinds, t) ELSE reg[i]]
    ELSE Append(reg, RegisteredPeer(url, kinds, t))

\* getActivePeers collecting into an array instead of a Set.
getActivePeersNoSet(reg, staticPeers, t) ==
  LET fresh == SelectSeqIdx(reg, [i \in 1..Len(reg) |-> t - reg[i].lastSeenMs <= REGISTRY_TTL_MS], 1)
  IN [i \in 1..Len(staticPeers) |-> normalizeUrl(staticPeers[i])]
       \o [i \in 1..Len(fresh) |-> normalizeUrl(fresh[i].url)]

\* getActivePeers comparing now - lastSeenMs < REGISTRY_TTL_MS.
getActivePeersStrict(reg, staticPeers, t) ==
  LET fresh == SelectSeqIdx(reg, [i \in 1..Len(reg) |-> t - reg[i].lastSeenMs < REGISTRY_TTL_MS], 1)
  IN Dedup([i \in 1..Len(staticPeers) |-> normalizeUrl(staticPeers[i])]
           \o [i \in 1..Len(fresh) |-> normalizeUrl(fresh[i].url)])

getActivePeers(reg, staticPeers, t) ==
  LET fresh == SelectSeqIdx(reg, [i \in 1..Len(reg) |-> t - reg[i].lastSeenMs <= REGISTRY_TTL_MS], 1)
  IN Dedup([i \in 1..Len(staticPeers) |-> normalizeUrl(staticPeers[i])]
           \o [i \in 1..Len(fresh) |-> normalizeUrl(fresh[i].url)])

\* cleanup deleting when now - lastSeenMs >= REGISTRY_TTL_MS.
registryCleanupEager(reg, t) ==
  SelectSeqIdx(reg, [i \in 1..Len(reg) |-> ~(t - reg[i].lastSeenMs >= REGISTRY_TTL_MS)], 1)

registryCleanup(reg, t) ==
  SelectSeqIdx(reg, [i \in 1..Len(reg) |-> ~(t - reg[i].lastSeenMs > REGISTRY_TTL_MS)], 1)

\* ------------------------------------------------------ selection helpers

\* pickRandom: Math.floor(Math.random() * arr.length) is any index.
pickRandom(arr) == SeqToSet(arr)

\* The values pickSelectedPeerForVerify may return.
pickSelectedPeerForVerify(peers) ==
  IF Len(peers) = 1 THEN {peers[1]} ELSE pickRandom(peers)

\* rotateToNext without the filter that drops current from the rest.
rotateToNextKeepsCurrent(peers, current) ==
  IF Len(peers) <= 1 THEN {peers}
  ELSE {<<current>> \o rest : rest \in Orderings(SeqToSet(peers))}

\* The values rotateToNext may return: the sort with a random comparator
\* leaves the rest in some order.
rotateToNext(peers, current) ==
  IF Len(peers) <= 1 THEN {peers}
  ELSE {<<current>> \o rest : rest \in Orderings(SeqToSet(peers) \ {current})}

\* ----------------------------------------------------------------- state

VARIABLES
  now,            \* Date.now()
  httpPeers,      \* options.httpPeers, the static peer list
  byPayer,        \* StickyRouter.byPayer
  byHeader,       \* StickyRouter.byHeader
  stickyTimer,    \* next firing time of StickyRouter.cleanupTimer
  registered,     \* PeerRegistry.registered
  registryTimer,  \* next firing time of PeerRegistry.cleanupTimer
  req,            \* the verify/settle requests in progress, one per slot
  arrived,        \* how many verify/settle requests have arrived
  registers,      \* how many POST /register requests have arrived
  lastRegister,   \* the answer to the latest POST /register
  lastOk,         \* the latest 200 a verify call obtained, while no other verify ran since
  ev,             \* the latest call of a method, function or endpoint observed, and its result
  written,        \* per sticky key, the latest recordSelection that wrote it since destroy()
  beats,          \* per registered url, the latest register call since destroy() and the
                  \* time of the one before it
  destroyed,      \* which of the two components destroy() was called on
  calls,          \* how many direct recordSelection / register calls were made
  supported,      \* the GET /supported request in progress
  registrar       \* a node's heartbeat emitter (startGatewayRegistration)

\* The state of the gateway adapter.
gatewayVars == <<req, arrived, registers, lastRegister, lastOk>>

\* The record of the direct calls on the two classes.
unitVars == <<ev, written, beats, destroyed, calls>>

\* The capability aggregation and the heartbeat emitter.
edgeVars == <<supported, registrar>>

vars ==
  <<now, httpPeers, byPayer, byHeader, stickyTimer, registered, registryTimer,
    req, arrived, registers, lastRegister, lastOk, ev, written, beats, destroyed, calls,
    supported, registrar>>

Slots == 1..MaxInFlight

\* ------------------------------------------------- answers to the caller

\* No answer written yet.
NoReply == [status |-> 0, origin |-> "none", body |-> TrueBody, error |-> ""]

\* res.status(s).json(body) with a peer's body
PeerReply(s, body) == [status |-> s, origin |-> "peer", body |-> body, error |-> ""]

\* res.status(s).json({ error })
ErrorReply(s, e) == [status |-> s, origin |-> "error", body |-> TrueBody, error |-> e]

\* res.status(s).json({ success: false, error, txHash: null, networkId: null })
SettleErrorReply(s, e) == [status |-> s, origin |-> "settleError", body |-> TrueBody, error |-> e]

\* -------------------------------------------------- one request in a slot

\* One outbound postJson call: out is "pending" while the fetch is awaited,
\* then "response", "error" (fetch rejected) or "timeout" (aborted).
Call(peer, deadline) ==
  [peer |-> peer, out |-> "pending", resp |-> NoResponse, deadline |-> deadline]

\* No verify success remembered.
NoOk == [body |-> NoKeyBody, peer |-> NoPeer, time |-> 0]

IdleReq ==
  [op |-> "none", pc |-> "idle", inbound |-> NoKeyBody, body |-> NoKeyBody,
   active |-> <<>>, order |-> <<>>, calls |-> <<>>, lastError |-> NoResponse,
   reply |-> NoReply, recorded |-> NoPeer, startedAt |-> 0, pre |-> NoOk]

Pending(rq) == {k \in 1..Len(rq.calls) : rq.calls[k].out = "pending"}

\* The request after call k ended with out/resp.
EndCall(rq, k, out, resp) ==
  [rq EXCEPT !.calls[k].out = out, !.calls[k].resp = resp]

\* The request at the await of postJson for the next peer of the order.
IssueCall(rq, timeoutMs, t) ==
  [rq EXCEPT !.pc = "calling",
             !.calls = Append(@, Call(rq.order[Len(rq.calls) + 1], t + timeoutMs))]

Answer(rq, reply) == [rq EXCEPT !.pc = "done", !.reply = reply]

\* ------------------------------------------------------------ POST /verify

\* VerifyExhausted answering the last error's body without its status.
VerifyExhaustedDropsStatus(rq) ==
  IF rq.lastError # NoResponse
    THEN Answer(rq, PeerReply(200, rq.lastError.body))
    ELSE Answer(rq, ErrorReply(503, "Verification unavailable"))

\* After the loop: the last non-200 response, else 503.
VerifyExhausted(rq) ==
  IF rq.lastError # NoResponse
    THEN Answer(rq, PeerReply(rq.lastError.status, rq.lastError.body))
    ELSE Answer(rq, ErrorReply(503, "Verification unavailable"))

\* The next iteration of the for loop over order.
VerifyNext(rq, t) ==
  IF Len(rq.calls) < Len(rq.order) THEN IssueCall(rq, VERIFY_TIMEOUT, t)
  ELSE VerifyExhausted(rq)

\* VerifyBegin without the check for an empty active peer set.
VerifyBeginUnguarded(inbound, activePeers, order, t) ==
  VerifyNext([IdleReq EXCEPT !.op = "verify", !.inbound = inbound, !.active = activePeers,
                             !.startedAt = t, !.body = normalizeForwardBody(inbound),
                             !.order = order], t)

\* The handler up to its first await, with the random choices made.
VerifyBegin(inbound, activePeers, order, t) ==
  LET rq == [IdleReq EXCEPT !.op = "verify", !.inbound = inbound, !.active = activePeers,
                            !.startedAt = t]
  IN IF Len(activePeers) = 0 THEN Answer(rq, ErrorReply(503, "No peers configured"))
     ELSE VerifyNext([rq EXCEPT !.body = normalizeForwardBody(inbound), !.order = order], t)

\* The loop body after postJson returned resp for call k; rs is the result
\* of recordSelection for it. A throw of recordSelection lands in the inner
\* catch and the loop goes on.
VerifyOnResponse(rq, k, resp, rs, t) ==
  LET ended == EndCall(rq, k, "response", resp)
  IN IF resp.status = 200
       THEN IF rs.threw THEN VerifyNext(ended, t)
            ELSE Answer([ended EXCEPT !.recorded = rq.calls[k].peer], PeerReply(200, resp.body))
       ELSE VerifyNext([ended EXCEPT !.lastError = resp], t)

\* VerifyOnFailure with a catch that resets lastError.
VerifyOnFailureForgets(rq, k, out, t) ==
  VerifyNext([EndCall(rq, k, out, NoResponse) EXCEPT !.lastError = NoResponse], t)

\* The inner catch after postJson rejected (out is "error" or "timeout").
VerifyOnFailure(rq, k, out, t) == VerifyNext(EndCall(rq, k, out, NoResponse), t)

\* ------------------------------------------------------------ POST /settle

\* After the loop: 503 in the settle error shape.
SettleExhausted(rq) == Answer(rq, SettleErrorReply(503, "Settle unavailable"))

\* The next iteration of the for loop over order.
SettleNext(rq, t) ==
  IF Len(rq.calls) < Len(rq.order) THEN IssueCall(rq, SETTLE_TIMEOUT, t)
  ELSE SettleExhausted(rq)

\* The handler up to its first await; pref is the result of getPreferredPeer.
\* The handler has no try around getPreferredPeer: a throw ends it with no
\* answer written.
SettleBegin(inbound, activePeers, pref, order, t) ==
  LET rq == [IdleReq EXCEPT !.op = "settle", !.inbound = inbound, !.active = activePeers,
                            !.startedAt = t]
  IN IF Len(activePeers) = 0 THEN Answer(rq, SettleErrorReply(503, "No peers configured"))
     ELSE IF pref.threw THEN [rq EXCEPT !.pc = "threw", !.body = normalizeForwardBody(inbound)]
     ELSE SettleNext([rq EXCEPT !.body = normalizeForwardBody(inbound), !.order = order], t)

\* SettleOnResponse passing on the last peer's non-200 response, as verify does.
SettleOnResponseLeaks(rq, k, resp, t) ==
  LET ended == EndCall(rq, k, "response", resp)
  IN IF resp.status = 200 THEN Answer(ended, PeerReply(200, resp.body))
     ELSE IF Len(rq.calls) < Len(rq.order) THEN SettleNext(ended, t)
     ELSE Answer(ended, PeerReply(resp.status, resp.body))

\* The loop body after postJson returned resp for call k.
SettleOnResponse(rq, k, resp, t) ==
  LET ended == EndCall(rq, k, "response", resp)
  IN IF resp.status = 200 THEN Answer(ended, PeerReply(200, resp.body))
     ELSE SettleNext(ended, t)

\* SettleOnFailure with a catch that answers at once instead of going on.
SettleOnFailureGivesUp(rq, k, out, t) == SettleExhausted(EndCall(rq, k, out, NoResponse))

\* SettleOnFailure going on to the next peer with call k left outstanding.
SettleOnFailureOverlaps(rq, k, out, t) == SettleNext(rq, t)

\* The catch after postJson rejected (out is "error" or "timeout").
SettleOnFailure(rq, k, out, t) == SettleNext(EndCall(rq, k, out, NoResponse), t)

\* ---------------------------------------------------------- POST /register

\* The url field of a POST /register body: undefined, or a string that is the
\* text of the URL u with lead white-space characters before it and trail
\* after it.
UrlField(t, lead, u, trail) == [t |-> t, lead |-> lead, url |-> u, trail |-> trail]

NoUrlField == UrlField("undefined", 0, NoPeer, 0)

\* String.prototype.trim
trim(s) == [s EXCEPT !.lead = 0, !.trail = 0]

\* String(body?.url || "") without the trim.
registerUrlUntrimmed(field) ==
  IF field.t = "undefined" THEN UrlField("string", 0, NoPeer, 0) ELSE field

\* String(body?.url || "").trim()
registerUrl(field) ==
  trim(IF field.t = "undefined" THEN UrlField("string", 0, NoPeer, 0) ELSE field)

\* !url || !/^https?:\/\//i.test(url) is false, for the string s
validRegisterUrl(s) ==
  /\ ~(s.lead = 0 /\ s.url = NoPeer /\ s.trail = 0)
  /\ s.lead = 0
  /\ s.url.scheme \in {"http://", "https://", "HTTP://", "HTTPS://"}

\* The url fields POST /register is called with.
RegisterUrls == {UrlField("string", 1, PeerB, 0), UrlField("string", 0, Url("ftp://", "C", 0), 0)}

\* The kinds fields POST /register is called with.
RegisterKinds == {NoKinds, Kinds(<<"exact">>)}

\* The values of options.httpPeers.
StaticConfigs == {<<>>, <<PeerA>>}

\* ------------------------------------------------------------------ actions

\* cleanupTimer === null
NoTimer == 0

\* No direct call was made yet.
NoEvent == [op |-> "none"]

NoWrites == [payer |-> EmptyMap, header |-> EmptyMap]

\* destroy() was called on neither component. stickyDue and registryDue are
\* the deadlines of the timers destroy() cleared, NoTimer when none.
NotDestroyed ==
  [sticky |-> FALSE, registry |-> FALSE, stickyDue |-> NoTimer, registryDue |-> NoTimer]

NoBeats == [x \in {} |-> [kinds |-> NoKinds, at |-> 0, prev |-> 0]]

\* No GET /supported request is in progress.
NoAggregation == [pc |-> "idle", peers |-> <<>>, results |-> <<>>, kinds |-> <<>>, status |-> 0]

\* startGatewayRegistration was not called.
NoRegistrar == [started |-> FALSE]

Init ==
  /\ now = 0
  /\ httpPeers \in StaticConfigs
  /\ byPayer = EmptyMap
  /\ byHeader = EmptyMap
  /\ stickyTimer = CLEANUP_INTERVAL_MS
  /\ registered = <<>>
  /\ registryTimer = CLEANUP_INTERVAL_MS
  /\ req = [r \in Slots |-> IdleReq]
  /\ arrived = 0
  /\ registers = 0
  /\ lastRegister = NoReply
  /\ lastOk = NoOk
  /\ ev = NoEvent
  /\ written = NoWrites
  /\ beats = NoBeats
  /\ destroyed = NotDestroyed
  /\ calls = 0
  /\ supported = NoAggregation
  /\ registrar = NoRegistrar

\* The event loop runs the interval callbacks that are due before it polls
\* for requests and responses.
NoCleanupDue == stickyTimer > now /\ registryTimer > now

CallPending == \E r \in DOMAIN req : Pending(req[r]) # {}

\* The deadlines of the timers that are set.
Deadlines ==
  {stickyTimer, registryTimer}
    \cup UNION {{req[r].calls[k].deadline : k \in Pending(req[r])} : r \in DOMAIN req}

\* Time passes up to the next timer deadline, once every timer that is due
\* has fired and every answer written has left. The clock runs on past
\* MaxTime only while a call is outstanding.
Tick ==
  /\ now < MaxTime \/ CallPending
  /\ \A d \in Deadlines : d > now
  /\ \A r \in DOMAIN req : req[r].pc \in {"idle", "calling"}
  /\ now' = CHOOSE d \in Deadlines : \A e \in Deadlines : d <= e
  /\ UNCHANGED <<httpPeers, byPayer, byHeader, stickyTimer, registered, registryTimer,
                 req, arrived, registers, lastRegister, lastOk>>
  /\ UNCHANGED unitVars
  /\ UNCHANGED edgeVars

\* The setInterval callback of the StickyRouter: cleanup().
StickyCleanupTimer ==
  /\ stickyTimer <= now
  /\ byPayer' = stickyCleanup(byPayer, now)
  /\ byHeader' = stickyCleanup(byHeader, now)
  /\ stickyTimer' = stickyTimer + CLEANUP_INTERVAL_MS
  /\ UNCHANGED <<now, httpPeers, registered, registryTimer, req, arrived, registers,
                 lastRegister, lastOk>>
  /\ UNCHANGED unitVars
  /\ UNCHANGED edgeVars

\* The setInterval callback of the PeerRegistry: cleanup(). The adapter
\* constructs the StickyRouter first, so of two callbacks due at the same
\* instant the StickyRouter's runs first.
RegistryCleanupTimer ==
  /\ registryTimer <= now
  /\ stickyTimer > now
  /\ registered' = registryCleanup(registered, now)
  /\ registryTimer' = registryTimer + CLEANUP_INTERVAL_MS
  /\ UNCHANGED <<now, httpPeers, byPayer, byHeader, stickyTimer, req, arrived, registers,
                 lastRegister, lastOk>>
  /\ UNCHANGED unitVars
  /\ UNCHANGED edgeVars

\* POST /register with the body {url: field, kinds}.
HandleRegister(field, kinds) ==
  /\ NoCleanupDue
  /\ registers' = registers + 1
  /\ LET url == registerUrl(field)
     IN IF validRegisterUrl(url)
          THEN /\ registered' = register(registered, url.url, kinds, now)
               /\ lastRegister' = [ErrorReply(200, "") EXCEPT !.origin = "ok"]
          ELSE /\ registered' = registered
               /\ lastRegister' = ErrorReply(400, "Invalid url")
  /\ ev' = [op |-> "POST /register", url |-> field, kinds |-> kinds]
  /\ UNCHANGED <<now, httpPeers, byPayer, byHeader, stickyTimer, registryTimer, req,
                 arrived, lastOk>>
  /\ UNCHANGED <<written, beats, destroyed, calls>>
  /\ UNCHANGED edgeVars

\* GET /peers
HandlePeers ==
  /\ NoCleanupDue
  /\ ev' = [op |-> "GET /peers", status |-> 200,
            peers |-> getActivePeers(registered, httpPeers, now)]
  /\ UNCHANGED <<now, httpPeers, byPayer, byHeader, stickyTimer, registered, registryTimer>>
  /\ UNCHANGED gatewayVars
  /\ UNCHANGED <<written, beats, destroyed, calls>>
  /\ UNCHANGED edgeVars

VerifyStart(r, inbound) ==
  /\ NoCleanupDue
  /\ req[r].pc = "idle"
  /\ arrived' = arrived + 1
  /\ LET activePeers == getActivePeers(registered, httpPeers, now)
     IN \E primary \in (IF Len(activePeers) = 0 THEN {NoPeer}
                        ELSE pickSelectedPeerForVerify(activePeers)) :
          \E order \in rotateToNext(activePeers, primary) :
            req' = [req EXCEPT ![r] = VerifyBegin(inbound, activePeers, order, now)]
  /\ lastOk' = NoOk
  /\ UNCHANGED <<now, httpPeers, byPayer, byHeader, stickyTimer, registered, registryTimer,
                 registers, lastRegister>>
  /\ UNCHANGED unitVars
  /\ UNCHANGED edgeVars

\* SettleStart that discards the sticky entries of the body once consulted.
SettleStartConsumes(r, inbound) ==
  /\ NoCleanupDue
  /\ req[r].pc = "idle"
  /\ arrived' = arrived + 1
  /\ LET activePeers == getActivePeers(registered, httpPeers, now)
         body == normalizeForwardBody(inbound)
         pref == getPreferredPeer(byPayer, byHeader, body, now)
     IN /\ \E preferred \in (IF Len(activePeers) = 0 THEN {NoPeer}
                             ELSE IF pref.peer # NoPeer THEN {pref.peer}
                             ELSE pickSelectedPeerForVerify(activePeers)) :
             \E order \in rotateToNext(activePeers, preferred) :
               req' = [req EXCEPT ![r] =
                         [SettleBegin(inbound, activePeers, pref, order, now) EXCEPT !.pre = lastOk]]
        /\ byPayer' = IF pref.threw THEN byPayer
                      ELSE MapDelete(byPayer, {toLowerCase(getPayerFromBody(body))})
        /\ byHeader' = IF pref.threw THEN byHeader
                       ELSE MapDelete(byHeader, {getHeaderFromBody(body)})
  /\ UNCHANGED <<now, httpPeers, stickyTimer, registered, registryTimer,
                 registers, lastRegister, lastOk>>
  /\ UNCHANGED unitVars
  /\ UNCHANGED edgeVars

SettleStart(r, inbound) ==
  /\ NoCleanupDue
  /\ req[r].pc = "idle"
  /\ arrived' = arrived + 1
  /\ LET activePeers == getActivePeers(registered, httpPeers, now)
         pref == getPreferredPeer(byPayer, byHeader, normalizeForwardBody(inbound), now)
     IN \E preferred \in (IF Len(activePeers) = 0 THEN {NoPeer}
                          ELSE IF pref.peer # NoPeer THEN {pref.peer}
                          ELSE pickSelectedPeerForVerify(activePeers)) :
          \E order \in rotateToNext(activePeers, preferred) :
            req' = [req EXCEPT ![r] =
                      [SettleBegin(inbound, activePeers, pref, order, now) EXCEPT !.pre = lastOk]]
  /\ UNCHANGED <<now, httpPeers, byPayer, byHeader, stickyTimer, registered, registryTimer,
                 registers, lastRegister, lastOk>>
  /\ UNCHANGED unitVars
  /\ UNCHANGED edgeVars

\* postJson resolves with a peer's response.
PeerResponds(r, resp) ==
  /\ NoCleanupDue
  /\ \E k \in Pending(req[r]) :
       IF req[r].op = "verify"
         THEN LET rs == recordSelection(byPayer, byHeader, req[r].calls[k].peer, req[r].body,
                                        resp.body, now)
              IN /\ req' = [req EXCEPT ![r] = VerifyOnResponse(req[r], k, resp, rs, now)]
                 /\ byPayer' = IF resp.status = 200 THEN rs.byPayer ELSE byPayer
                 /\ byHeader' = IF resp.status = 200 THEN rs.byHeader ELSE byHeader
                 /\ lastOk' = IF resp.status = 200
                                THEN [body |-> req[r].inbound, peer |-> req[r].calls[k].peer,
                                      time |-> now]
                                ELSE NoOk
         ELSE /\ req' = [req EXCEPT ![r] = SettleOnResponse(req[r], k, resp, now)]
              /\ UNCHANGED <<byPayer, byHeader, lastOk>>
  /\ UNCHANGED <<now, httpPeers, stickyTimer, registered, registryTimer, arrived, registers,
                 lastRegister>>
  /\ UNCHANGED unitVars
  /\ UNCHANGED edgeVars

\* postJson rejects for call k: out is "error" (the fetch failed) or
\* "timeout" (aborted).
CallFails(r, k, out) ==
  /\ IF req[r].op = "verify"
       THEN /\ req' = [req EXCEPT ![r] = VerifyOnFailure(req[r], k, out, now)]
            /\ lastOk' = NoOk
       ELSE /\ req' = [req EXCEPT ![r] = SettleOnFailure(req[r], k, out, now)]
            /\ lastOk' = lastOk
  /\ UNCHANGED <<now, httpPeers, byPayer, byHeader, stickyTimer, registered, registryTimer,
                 arrived, registers, lastRegister>>
  /\ UNCHANGED unitVars
  /\ UNCHANGED edgeVars

\* The fetch fails in transport.
PeerFails(r) ==
  /\ NoCleanupDue
  /\ \E k \in Pending(req[r]) : CallFails(r, k, "error")

\* The setTimeout of postJson fires: controller.abort().
CallTimeout(r) ==
  \E k \in Pending(req[r]) :
    /\ req[r].calls[k].deadline <= now
    /\ CallFails(r, k, "timeout")

\* The handler is over and its slot is free again.
Retire(r) ==
  /\ req[r].pc \in {"done", "threw"}
  /\ req' = [req EXCEPT ![r] = IdleReq]
  /\ UNCHANGED <<now, httpPeers, byPayer, byHeader, stickyTimer, registered, registryTimer,
                 arrived, registers, lastRegister, lastOk>>
  /\ UNCHANGED unitVars
  /\ UNCHANGED edgeVars

Next ==
  \/ Tick
  \/ StickyCleanupTimer
  \/ RegistryCleanupTimer
  \/ \E url \in RegisterUrls, kinds \in RegisterKinds :
       registers < MaxRegisters /\ now <= MaxRegisterTime /\ HandleRegister(url, kinds)
  \/ \E r \in Slots, inbound \in Bodies : arrived < MaxRequests /\ VerifyStart(r, inbound)
  \/ \E r \in Slots, inbound \in Bodies : arrived < MaxRequests /\ SettleStart(r, inbound)
  \/ \E r \in Slots, resp \in PeerResponses : PeerResponds(r, resp)
  \/ \E r \in Slots : PeerFails(r)
  \/ \E r \in Slots : CallTimeout(r)
  \/ \E r \in Slots : Retire(r)

Spec == Init /\ [][Next]_vars

\* ------------------------------------------- the two classes on their own

\* The StickyRouter and the PeerRegistry are exported classes: the
\* specifications below call their methods directly, in any order, with the
\* clock set by the caller (as the unit tests do with vi.setSystemTime).

\* The clock of a StickyRouter on its own reaches this many cleanup intervals.
StickyIntervals == 2
\* The clock of a PeerRegistry on its own reaches this many cleanup intervals.
RegistryIntervals == 5
\* How many recordSelection / register calls are made on a class on its own.
MaxCalls == 2

\* The instants the clock is set to: the multiples of the cleanup interval up
\* to the n-th, the first millisecond, and the millisecond before and after
\* the time to live ttl has passed.
Instants(n, ttl) ==
  {k * CLEANUP_INTERVAL_MS : k \in 0..n} \cup {1, ttl - 1, ttl + 1}

\* new StickyRouter(autoCleanup) / new PeerRegistry(autoCleanup)
startCleanup(autoCleanup, t) == IF autoCleanup THEN t + CLEANUP_INTERVAL_MS ELSE NoTimer

\* StickyRouter.size
stickySize(sp, sh) == [payers |-> Cardinality(DOMAIN sp), headers |-> Cardinality(DOMAIN sh)]

\* PeerRegistry.size
registrySize(reg) == Len(reg)

\* The request bodies recordSelection and getPreferredPeer are called with.
StickyBodies == {EvmBody, EvmHeaderBody, LegacyBody, SolanaBody, NoKeyBody, NumericFromBody}

\* The verify response bodies recordSelection is called with.
VerifyBodies == {TrueBody, ObjBody(Str(<<"C">>)), ObjBody(Str(<<>>))}

\* The request bodies getPreferredPeer is called with.
LookupBodies == {EvmBody, EvmHeaderBody, LegacyBody, NumericFromBody}

\* The peers recordSelection is called with.
StickyPeers == {PeerA, PeerB}

TimerDue(timer) == timer # NoTimer /\ timer <= now

\* The caller sets the clock forward to t. An interval callback that is due
\* runs before the clock passes its deadline.
Advance(t) ==
  /\ t > now
  /\ stickyTimer # NoTimer => (stickyTimer > now /\ t <= stickyTimer)
  /\ registryTimer # NoTimer => (registryTimer > now /\ t <= registryTimer)
  /\ now' = t
  /\ ev' = [op |-> "advance"]
  /\ UNCHANGED <<httpPeers, byPayer, byHeader, stickyTimer, registered, registryTimer>>
  /\ UNCHANGED <<written, beats, destroyed, calls>>
  /\ UNCHANGED gatewayVars
  /\ UNCHANGED edgeVars

\* The keys of map m2 whose entry is not the one map m1 has.
Changed(m1, m2) == {k \in DOMAIN m2 : k \notin DOMAIN m1 \/ m1[k] # m2[k]}

\* The log of the writes after a call that turned map m1 into m2.
Logged(log, m1, m2, peer, t) ==
  [k \in (DOMAIN log) \cup Changed(m1, m2) |->
     IF k \in Changed(m1, m2) THEN [peer |-> peer, at |-> t] ELSE log[k]]

\* sticky.recordSelection(peer, body, verifyResponseBody)
CallRecordSelection(peer, body, verifyResponseBody) ==
  /\ calls < MaxCalls
  /\ calls' = calls + 1
  /\ LET rs == recordSelection(byPayer, byHeader, peer, body, verifyResponseBody, now)
     IN /\ byPayer' = rs.byPayer
        /\ byHeader' = rs.byHeader
        /\ written' = [payer |-> Logged(written.payer, byPayer, rs.byPayer, peer, now),
                       header |-> Logged(written.header, byHeader, rs.byHeader, peer, now)]
        /\ ev' = [op |-> "recordSelection", peer |-> peer, body |-> body,
                  response |-> verifyResponseBody, threw |-> rs.threw]
  /\ UNCHANGED <<now, httpPeers, stickyTimer, registered, registryTimer, beats, destroyed>>
  /\ UNCHANGED gatewayVars
  /\ UNCHANGED edgeVars

\* sticky.getPreferredPeer(body)
CallGetPreferredPeer(body) ==
  /\ LET r == getPreferredPeer(byPayer, byHeader, body, now)
     IN ev' = [op |-> "getPreferredPeer", body |-> body, threw |-> r.threw, peer |-> r.peer]
  /\ UNCHANGED <<now, httpPeers, byPayer, byHeader, stickyTimer, registered, registryTimer>>
  /\ UNCHANGED <<written, beats, destroyed, calls>>
  /\ UNCHANGED gatewayVars
  /\ UNCHANGED edgeVars

\* sticky.cleanup(), called directly (by = "call") or by the interval timer
\* (by = "timer").
StickyCleanupRuns(by) ==
  /\ byPayer' = stickyCleanup(byPayer, now)
  /\ byHeader' = stickyCleanup(byHeader, now)
  /\ ev' = [op |-> "stickyCleanup", by |-> by]
  /\ UNCHANGED <<now, httpPeers, registered, registryTimer>>
  /\ UNCHANGED <<written, beats, destroyed, calls>>
  /\ UNCHANGED gatewayVars
  /\ UNCHANGED edgeVars

CallStickyCleanup == StickyCleanupRuns("call") /\ UNCHANGED stickyTimer

\* The timer set with setTimeout: the callback runs once.
StickyTimerFiresOnce ==
  /\ TimerDue(stickyTimer)
  /\ stickyTimer' = NoTimer
  /\ StickyCleanupRuns("timer")

StickyTimerFires ==
  /\ TimerDue(stickyTimer)
  /\ stickyTimer' = stickyTimer + CLEANUP_INTERVAL_MS
  /\ StickyCleanupRuns("timer")

\* destroy() without clearInterval: the timer keeps running.
CallStickyDestroyKeepsTimer ==
  /\ stickyTimer' = stickyTimer
  /\ byPayer' = EmptyMap
  /\ byHeader' = EmptyMap
  /\ written' = NoWrites
  /\ destroyed' = [destroyed EXCEPT !.sticky = TRUE,
                                    !.stickyDue = IF stickyTimer # NoTimer THEN stickyTimer ELSE @]
  /\ ev' = [op |-> "stickyDestroy"]
  /\ UNCHANGED <<now, httpPeers, registered, registryTimer, beats, calls>>
  /\ UNCHANGED gatewayVars
  /\ UNCHANGED edgeVars

\* sticky.destroy()
CallStickyDestroy ==
  /\ stickyTimer' = NoTimer
  /\ byPayer' = EmptyMap
  /\ byHeader' = EmptyMap
  /\ written' = NoWrites
  /\ destroyed' = [destroyed EXCEPT !.sticky = TRUE,
                                    !.stickyDue = IF stickyTimer # NoTimer THEN stickyTimer ELSE @]
  /\ ev' = [op |-> "stickyDestroy"]
  /\ UNCHANGED <<now, httpPeers, registered, registryTimer, beats, calls>>
  /\ UNCHANGED gatewayVars
  /\ UNCHANGED edgeVars

StickyInit ==
  /\ now = 0
  /\ httpPeers = <<>>
  /\ byPayer = EmptyMap
  /\ byHeader = EmptyMap
  /\ \E autoCleanup \in BOOLEAN : stickyTimer = startCleanup(autoCleanup, 0)
  /\ registered = <<>>
  /\ registryTimer = NoTimer
  /\ req = [r \in Slots |-> IdleReq]
  /\ arrived = 0
  /\ registers = 0
  /\ lastRegister = NoReply
  /\ lastOk = NoOk
  /\ ev = NoEvent
  /\ written = NoWrites
  /\ beats = NoBeats
  /\ destroyed = NotDestroyed
  /\ calls = 0
  /\ supported = NoAggregation
  /\ registrar = NoRegistrar

StickyNext ==
  \/ \E t \in Instants(StickyIntervals, SELECTION_TTL_MS) : Advance(t)
  \/ \E peer \in StickyPeers, body \in StickyBodies, verifyResponseBody \in VerifyBodies :
       CallRecordSelection(peer, body, verifyResponseBody)
  \/ \E body \in LookupBodies : CallGetPreferredPeer(body)
  \/ CallStickyCleanup
  \/ StickyTimerFires
  \/ CallStickyDestroy

StickySpec == StickyInit /\ [][StickyNext]_vars

\* The urls register is called with: a peer with and without a trailing slash.
RegistryUrls == {PeerB, Url("http://", "B", 1)}

\* The static lists getActivePeers is called with.
StaticLists == {<<>>, <<PeerA, PeerA>>, <<Url("http://", "A", 1), PeerB>>}

\* registry.register(url, kinds)
CallRegister(url, kinds) ==
  /\ calls < MaxCalls
  /\ calls' = calls + 1
  /\ registered' = register(registered, url, kinds, now)
  /\ beats' = MapSet(beats, url,
                     [kinds |-> kinds, at |-> now,
                      prev |-> IF url \in DOMAIN beats THEN beats[url].at ELSE now])
  /\ ev' = [op |-> "register", url |-> url, kinds |-> kinds]
  /\ UNCHANGED <<now, httpPeers, byPayer, byHeader, stickyTimer, registryTimer>>
  /\ UNCHANGED <<written, destroyed>>
  /\ UNCHANGED gatewayVars
  /\ UNCHANGED edgeVars

\* registry.getActivePeers(staticPeers)
CallGetActivePeers(staticPeers) ==
  /\ ev' = [op |-> "getActivePeers", staticPeers |-> staticPeers,
            out |-> getActivePeers(registered, staticPeers, now)]
  /\ UNCHANGED <<now, httpPeers, byPayer, byHeader, stickyTimer, registered, registryTimer>>
  /\ UNCHANGED <<written, beats, destroyed, calls>>
  /\ UNCHANGED gatewayVars
  /\ UNCHANGED edgeVars

\* registry.cleanup(), called directly (by = "call") or by the interval timer
\* (by = "timer").
RegistryCleanupRuns(by) ==
  /\ registered' = registryCleanup(registered, now)
  /\ ev' = [op |-> "registryCleanup", by |-> by]
  /\ UNCHANGED <<now, httpPeers, byPayer, byHeader, stickyTimer>>
  /\ UNCHANGED <<written, beats, destroyed, calls>>
  /\ UNCHANGED gatewayVars
  /\ UNCHANGED edgeVars

CallRegistryCleanup == RegistryCleanupRuns("call") /\ UNCHANGED registryTimer

RegistryTimerFires ==
  /\ TimerDue(registryTimer)
  /\ registryTimer' = registryTimer + CLEANUP_INTERVAL_MS
  /\ RegistryCleanupRuns("timer")

\* registry.destroy()
CallRegistryDestroy ==
  /\ registryTimer' = NoTimer
  /\ registered' = <<>>
  /\ beats' = NoBeats
  /\ destroyed' = [destroyed EXCEPT !.registry = TRUE,
                                    !.registryDue = IF registryTimer # NoTimer THEN registryTimer ELSE @]
  /\ ev' = [op |-> "registryDestroy"]
  /\ UNCHANGED <<now, httpPeers, byPayer, byHeader, stickyTimer, written, calls>>
  /\ UNCHANGED gatewayVars
  /\ UNCHANGED edgeVars

RegistryInit ==
  /\ now = 0
  /\ httpPeers = <<>>
  /\ byPayer = EmptyMap
  /\ byHeader = EmptyMap
  /\ stickyTimer = NoTimer
  /\ registered = <<>>
  /\ \E autoCleanup \in BOOLEAN : registryTimer = startCleanup(autoCleanup, 0)
  /\ req = [r \in Slots |-> IdleReq]
  /\ arrived = 0
  /\ registers = 0
  /\ lastRegister = NoReply
  /\ lastOk = NoOk
  /\ ev = NoEvent
  /\ written = NoWrites
  /\ beats = NoBeats
  /\ destroyed = NotDestroyed
  /\ calls = 0
  /\ supported = NoAggregation
  /\ registrar = NoRegistrar

RegistryNext ==
  \/ \E t \in Instants(RegistryIntervals, REGISTRY_TTL_MS) : Advance(t)
  \/ \E url \in RegistryUrls, kinds \in RegisterKinds : CallRegister(url, kinds)
  \/ \E staticPeers \in StaticLists : CallGetActivePeers(staticPeers)
  \/ CallRegistryCleanup
  \/ RegistryTimerFires
  \/ CallRegistryDestroy

RegistrySpec == RegistryInit /\ [][RegistryNext]_vars

\* A StickyRouter and a PeerRegistry side by side, as the adapter holds them,
\* called directly: what destroy() on one does to the timers and the entries
\* of both.
TeardownInit ==
  /\ now = 0
  /\ httpPeers = <<>>
  /\ byPayer = EmptyMap
  /\ byHeader = EmptyMap
  /\ \E autoCleanup \in BOOLEAN : stickyTimer = startCleanup(autoCleanup, 0)
  /\ registered = <<>>
  /\ \E autoCleanup \in BOOLEAN : registryTimer = startCleanup(autoCleanup, 0)
  /\ req = [r \in Slots |-> IdleReq]
  /\ arrived = 0
  /\ registers = 0
  /\ lastRegister = NoReply
  /\ lastOk = NoOk
  /\ ev = NoEvent
  /\ written = NoWrites
  /\ beats = NoBeats
  /\ destroyed = NotDestroyed
  /\ calls = 0
  /\ supported = NoAggregation
  /\ registrar = NoRegistrar

TeardownNext ==
  \/ \E t \in Instants(StickyIntervals, SELECTION_TTL_MS) : Advance(t)
  \/ \E body \in {EvmHeaderBody, NoKeyBody} : CallRecordSelection(PeerA, body, TrueBody)
  \/ \E kinds \in RegisterKinds : CallRegister(PeerB, kinds)
  \/ CallStickyCleanup
  \/ StickyTimerFires
  \/ CallStickyDestroy
  \/ CallRegistryCleanup
  \/ RegistryTimerFires
  \/ CallRegistryDestroy

TeardownSpec == TeardownInit /\ [][TeardownNext]_vars

\* A StickyRouter and a PeerRegistry constructed with auto-cleanup, on which
\* cleanup() is never called directly: the interval timers alone sweep.
SweepInit ==
  /\ now = 0
  /\ httpPeers = <<>>
  /\ byPayer = EmptyMap
  /\ byHeader = EmptyMap
  /\ stickyTimer = startCleanup(TRUE, 0)
  /\ registered = <<>>
  /\ registryTimer = startCleanup(TRUE, 0)
  /\ req = [r \in Slots |-> IdleReq]
  /\ arrived = 0
  /\ registers = 0
  /\ lastRegister = NoReply
  /\ lastOk = NoOk
  /\ ev = NoEvent
  /\ written = NoWrites
  /\ beats = NoBeats
  /\ destroyed = NotDestroyed
  /\ calls = 0
  /\ supported = NoAggregation
  /\ registrar = NoRegistrar

SweepNext ==
  \/ \E t \in Instants(RegistryIntervals, REGISTRY_TTL_MS) : Advance(t)
  \/ \E body \in {EvmHeaderBody, LegacyBody} : CallRecordSelection(PeerA, body, TrueBody)
  \/ \E url \in RegistryUrls : CallRegister(url, NoKinds)
  \/ StickyTimerFires
  \/ RegistryTimerFires
  \/ CallStickyDestroy
  \/ CallRegistryDestroy

SweepSpec == SweepInit /\ [][SweepNext]_vars

\* ------------------------------------------- the registration endpoints

\* How many POST /register requests arrive at the gateway of EndpointSpec.
MaxPosts == 3

\* The url fields POST /register is called with: a url with white space
\* around it, an upper-case scheme with a trailing slash, a scheme that is not
\* http, no scheme, white space only and no url field.
EndpointUrls ==
  {UrlField("string", 1, PeerB, 1),
   UrlField("string", 0, Url("HTTPS://", "B", 1), 0),
   UrlField("string", 0, Url("ftp://", "C", 0), 0),
   UrlField("string", 0, Url("", "C", 0), 0),
   UrlField("string", 2, NoPeer, 0),
   NoUrlField}

\* A gateway that is sent POST /register and GET /peers requests while its
\* cleanup timers run.
EndpointNext ==
  \/ Tick
  \/ StickyCleanupTimer
  \/ RegistryCleanupTimer
  \/ \E url \in EndpointUrls, kinds \in RegisterKinds :
       registers < MaxPosts /\ HandleRegister(url, kinds)
  \/ HandlePeers

EndpointSpec == Init /\ [][EndpointNext]_vars

\* ------------------------------------------------- capability aggregation

\* A capability descriptor (SupportedPaymentKind) is a JSON object: its
\* fields as <<name, value>> pairs in the order they are listed.
KindX == <<<<"scheme", "exact">>, <<"network", "base">>>>
KindXReordered == <<<<"network", "base">>, <<"scheme", "exact">>>>
KindY == <<<<"scheme", "exact">>, <<"network", "solana">>>>

\* JSON.stringify of a descriptor: the names and values in listing order.
JSONstringify(k) ==
  [i \in 1..(2 * Len(k)) |-> IF i % 2 = 1 THEN k[(i + 1) \div 2][1] ELSE k[i \div 2][2]]

\* How the capability-discovery call to one peer ends: t is "json" when the
\* peer answered a JSON body whose kinds field is kinds, "notJson" when
\* r.json() rejects and "error" when fetch rejects.
Discovery(t, kinds) == [t |-> t, kinds |-> kinds]

\* The call has not ended.
DiscoveryPending == Discovery("pending", NoKinds)

\* How a capability-discovery call may end.
Discoveries ==
  {Discovery("json", Kinds(<<KindX>>)),
   Discovery("json", Kinds(<<KindX, KindY>>)),
   Discovery("json", Kinds(<<KindXReordered>>)),
   Discovery("json", Kinds(<<>>)),
   Discovery("json", NoKinds),
   Discovery("notJson", NoKinds),
   Discovery("error", NoKinds)}

\* The promise of one peer in the peers.map callback: the try/catch turns
\* every failure into [].
discoverKinds(d) ==
  IF d.t = "json" /\ d.kinds.t = "array"
    THEN [status |-> "fulfilled", value |-> d.kinds.v]
    ELSE [status |-> "fulfilled", value |-> <<>>]

RECURSIVE Flatten(_, _)
\* kinds.push(...r.value) for the fulfilled results, from the i-th on.
Flatten(results, i) ==
  IF i > Len(results) THEN <<>>
  ELSE (IF results[i].status = "fulfilled" THEN results[i].value ELSE <<>>)
         \o Flatten(results, i + 1)

\* kinds.filter with the seen set of JSON.stringify keys
dedupKinds(kinds) ==
  SelectSeqIdx(kinds,
               [i \in 1..Len(kinds) |->
                  \A j \in 1..(i - 1) : JSONstringify(kinds[j]) # JSONstringify(kinds[i])], 1)

\* aggregateSupportedKinds with Promise.all and no catch around a peer's
\* call: one failing peer rejects the whole aggregation.
aggregateFailFast(ds) ==
  IF \E i \in 1..Len(ds) : ~(ds[i].t = "json" /\ ds[i].kinds.t = "array")
    THEN [threw |-> TRUE, kinds |-> <<>>]
    ELSE [threw |-> FALSE,
          kinds |-> dedupKinds(Flatten([i \in 1..Len(ds) |-> discoverKinds(ds[i])], 1))]

\* aggregateSupportedKinds once the calls to all peers ended as ds, in the
\* order of peers.
aggregateSupportedKinds(ds) ==
  [threw |-> FALSE,
   kinds |-> dedupKinds(Flatten([i \in 1..Len(ds) |-> discoverKinds(ds[i])], 1))]

\* The values of options.httpPeers of the gateway that is sent GET /supported.
SupportedConfigs == {<<>>, <<PeerA>>, <<PeerA, PeerB>>, <<PeerA, PeerB, PeerC>>}

\* The handler's answer once aggregateSupportedKinds settled with agg; a
\* rejection leaves the handler without an answer.
SupportedAnswer(sup, agg) ==
  [sup EXCEPT !.pc = IF agg.threw THEN "threw" ELSE "done",
              !.kinds = agg.kinds,
              !.status = IF agg.threw THEN 0 ELSE 200]

\* GET /supported arrives: one fetch per active peer is started.
SupportedStart ==
  /\ supported.pc = "idle"
  /\ LET peers == getActivePeers(registered, httpPeers, now)
         sup == [NoAggregation EXCEPT !.peers = peers,
                                      !.results = [i \in 1..Len(peers) |-> DiscoveryPending]]
     IN supported' = IF Len(peers) = 0
                       THEN [sup EXCEPT !.pc = "done", !.status = 200]
                       ELSE [sup EXCEPT !.pc = "waiting"]
  /\ ev' = [op |-> "GET /supported"]
  /\ UNCHANGED <<now, httpPeers, byPayer, byHeader, stickyTimer, registered, registryTimer>>
  /\ UNCHANGED gatewayVars
  /\ UNCHANGED <<written, beats, destroyed, calls, registrar>>

\* The call to the i-th peer ends as d; when it was the last one outstanding
\* Promise.allSettled resolves and the handler answers.
DiscoveryEnds(i, d) ==
  /\ supported.pc = "waiting"
  /\ i \in 1..Len(supported.results)
  /\ supported.results[i] = DiscoveryPending
  /\ LET sup == [supported EXCEPT !.results[i] = d]
     IN supported' =
          IF \E j \in 1..Len(sup.results) : sup.results[j] = DiscoveryPending
            THEN sup
            ELSE SupportedAnswer(sup, aggregateSupportedKinds(sup.results))
  /\ UNCHANGED <<now, httpPeers, byPayer, byHeader, stickyTimer, registered, registryTimer>>
  /\ UNCHANGED gatewayVars
  /\ UNCHANGED <<ev, written, beats, destroyed, calls, registrar>>

SupportedInit ==
  /\ now = 0
  /\ httpPeers \in SupportedConfigs
  /\ byPayer = EmptyMap
  /\ byHeader = EmptyMap
  /\ stickyTimer = CLEANUP_INTERVAL_MS
  /\ registered = <<>>
  /\ registryTimer = CLEANUP_INTERVAL_MS
  /\ req = [r \in Slots |-> IdleReq]
  /\ arrived = 0
  /\ registers = 0
  /\ lastRegister = NoReply
  /\ lastOk = NoOk
  /\ ev = NoEvent
  /\ written = NoWrites
  /\ beats = NoBeats
  /\ destroyed = NotDestroyed
  /\ calls = 0
  /\ supported = NoAggregation
  /\ registrar = NoRegistrar

SupportedNext ==
  \/ SupportedStart
  \/ \E i \in 1..Len(supported.results), d \in Discoveries : DiscoveryEnds(i, d)

SupportedSpec == SupportedInit /\ [][SupportedNext]_vars

\* The peers of the list whose capability-discovery call ends sooner or
\* later; the first peer of the list may leave its call without an end. The
\* fetch of aggregateSupportedKinds is given no signal and no timer is set
\* for it, so nothing but the peer ends the call.
Responsive == 2..3

\* GET /supported with every peer but the first one sure to end its call.
SupportedLiveSpec ==
  /\ SupportedInit
  /\ [][SupportedNext]_vars
  /\ WF_vars(SupportedStart)
  /\ \A i \in Responsive : WF_vars(\E d \in Discoveries : DiscoveryEnds(i, d))

\* ------------------------------------------------------ heartbeat emitter

MIN_INTERVAL_MS == 5000
DEFAULT_INTERVAL_MS == 30000

\* How many interval ticks of the heartbeat emitter fire in one behaviour.
MaxTicks == 1

\* opts.intervalMs: undefined or a number of milliseconds.
IntervalMs(n) == [t |-> "number", ms |-> n]
NoIntervalMs == [t |-> "undefined", ms |-> 0]

\* Math.max(5_000, opts.intervalMs ?? 30_000)
heartbeatInterval(intervalMs) ==
  LET ms == IF intervalMs.t = "undefined" THEN DEFAULT_INTERVAL_MS ELSE intervalMs.ms
  IN IF ms > MIN_INTERVAL_MS THEN ms ELSE MIN_INTERVAL_MS

\* The values of opts.intervalMs.
IntervalOptions == {NoIntervalMs, IntervalMs(1000)}

\* The values of opts.gatewayUrls.
GatewayLists == {<<Url("http://", "G", 1), Url("http://", "H", 0)>>}

\* opts.nodeBaseUrl
NodeBaseUrl == Url("http://", "B", 1)

\* What opts.kindsProvider does when called: resolves with an array,
\* resolves with something else, or throws (rejects).
Provided(t, kinds) == [t |-> t, kinds |-> kinds]
KindsResults ==
  {Provided("array", Kinds(<<"exact">>)), Provided("other", NoKinds), Provided("throws", NoKinds)}

\* safeKinds: the array, or undefined
safeKinds(p) == IF p.t = "array" THEN p.kinds ELSE NoKinds

\* One call of heartbeat(): pc is "kinds" at the await of safeKinds, "post"
\* at the await of the fetch to gateway number gw, then "done"; sent lists
\* the POSTs it has sent.
Heartbeat(pc, begunAt) ==
  [pc |-> pc, gw |-> 0, provided |-> "none", kinds |-> NoKinds, begunAt |-> begunAt,
   sent |-> <<>>]

\* fetch(url, {method: "POST", body}): stopped is the emitter's flag when the
\* POST is sent, at the time it is sent, out is "pending" until the fetch
\* settles.
Post(to, url, kinds, stopped) ==
  [to |-> to, url |-> url, kinds |-> kinds, stopped |-> stopped, out |-> "pending", at |-> now]

\* The for loop of heartbeat() going on to the next gateway, or ending.
nextPost(rg, hb) ==
  IF hb.gw < Len(rg.gateways)
    THEN [hb EXCEPT !.pc = "post", !.gw = @ + 1,
                    !.sent = Append(@, Post(normalizeUrl(rg.gateways[hb.gw + 1]),
                                            normalizeUrl(rg.nodeBaseUrl), hb.kinds, rg.stopped))]
    ELSE [hb EXCEPT !.pc = "done"]

\* A call of heartbeat() at time t, up to its first await.
heartbeat(rg, t) ==
  IF rg.stopped THEN rg
  ELSE IF rg.hasProvider
    THEN [rg EXCEPT !.beats = Append(@, Heartbeat("kinds", t))]
    ELSE [rg EXCEPT !.beats = Append(@, nextPost(rg, Heartbeat("post", t)))]

\* startGatewayRegistration without the immediate heartbeat().
StartRegistrationNoImmediate(intervalMs, hasProvider, gateways) ==
  /\ ~registrar.started
  /\ registrar' =
       [started |-> TRUE, stopped |-> FALSE, interval |-> heartbeatInterval(intervalMs),
        timer |-> now + heartbeatInterval(intervalMs), due |-> NoTimer, startedAt |-> now,
        ticks |-> 0, hasProvider |-> hasProvider, gateways |-> gateways,
        nodeBaseUrl |-> NodeBaseUrl, beats |-> <<>>]
  /\ ev' = [op |-> "heartbeat"]
  /\ UNCHANGED <<now, httpPeers, byPayer, byHeader, stickyTimer, registered, registryTimer>>
  /\ UNCHANGED gatewayVars
  /\ UNCHANGED <<written, beats, destroyed, calls, supported>>

\* startGatewayRegistration(opts): sets the interval timer and calls
\* heartbeat() at once.
StartRegistration(intervalMs, hasProvider, gateways) ==
  /\ ~registrar.started
  /\ registrar' =
       heartbeat([started |-> TRUE, stopped |-> FALSE, interval |-> heartbeatInterval(intervalMs),
                  timer |-> now + heartbeatInterval(intervalMs), due |-> NoTimer,
                  startedAt |-> now, ticks |-> 0, hasProvider |-> hasProvider,
                  gateways |-> gateways, nodeBaseUrl |-> NodeBaseUrl, beats |-> <<>>], now)
  /\ ev' = [op |-> "heartbeat"]
  /\ UNCHANGED <<now, httpPeers, byPayer, byHeader, stickyTimer, registered, registryTimer>>
  /\ UNCHANGED gatewayVars
  /\ UNCHANGED <<written, beats, destroyed, calls, supported>>

\* The setInterval callback: heartbeat().
HeartbeatTick ==
  /\ registrar.started
  /\ TimerDue(registrar.timer)
  /\ registrar.ticks < MaxTicks
  /\ registrar' = heartbeat([registrar EXCEPT !.timer = @ + registrar.interval,
                                              !.ticks = @ + 1], now)
  /\ ev' = [op |-> "heartbeat"]
  /\ UNCHANGED <<now, httpPeers, byPayer, byHeader, stickyTimer, registered, registryTimer>>
  /\ UNCHANGED gatewayVars
  /\ UNCHANGED <<written, beats, destroyed, calls, supported>>

\* safeKinds settles for heartbeat number b: the POST to the first gateway
\* is sent.
KindsSettle(b, p) ==
  /\ registrar.started
  /\ b \in 1..Len(registrar.beats)
  /\ registrar.beats[b].pc = "kinds"
  /\ registrar' = [registrar EXCEPT
                     !.beats[b] = nextPost(registrar, [@ EXCEPT !.provided = p.t,
                                                                !.kinds = safeKinds(p)])]
  /\ ev' = [op |-> "heartbeat"]
  /\ UNCHANGED <<now, httpPeers, byPayer, byHeader, stickyTimer, registered, registryTimer>>
  /\ UNCHANGED gatewayVars
  /\ UNCHANGED <<written, beats, destroyed, calls, supported>>

\* PostSettles without the try/catch around fetch: a rejected fetch ends the
\* heartbeat.
PostSettlesUncaught(b, out) ==
  /\ registrar.started
  /\ b \in 1..Len(registrar.beats)
  /\ registrar.beats[b].pc = "post"
  /\ registrar' = [registrar EXCEPT
                     !.beats[b] = LET hb == [@ EXCEPT !.sent[@.gw].out = out]
                                  IN IF out = "rejected" THEN [hb EXCEPT !.pc = "threw"]
                                     ELSE nextPost(registrar, hb)]
  /\ ev' = [op |-> "heartbeat"]
  /\ UNCHANGED <<now, httpPeers, byPayer, byHeader, stickyTimer, registered, registryTimer>>
  /\ UNCHANGED gatewayVars
  /\ UNCHANGED <<written, beats, destroyed, calls, supported>>

\* The fetch of heartbeat number b settles: out is "response" (any status)
\* or "rejected"; either way the loop goes on.
PostSettles(b, out) ==
  /\ registrar.started
  /\ b \in 1..Len(registrar.beats)
  /\ registrar.beats[b].pc = "post"
  /\ registrar' = [registrar EXCEPT
                     !.beats[b] = nextPost(registrar, [@ EXCEPT !.sent[@.gw].out = out])]
  /\ ev' = [op |-> "heartbeat"]
  /\ UNCHANGED <<now, httpPeers, byPayer, byHeader, stickyTimer, registered, registryTimer>>
  /\ UNCHANGED gatewayVars
  /\ UNCHANGED <<written, beats, destroyed, calls, supported>>

\* The function startGatewayRegistration returned is called.
StopRegistration ==
  /\ registrar.started
  /\ registrar' = [registrar EXCEPT !.stopped = TRUE, !.timer = NoTimer,
                                    !.due = IF registrar.timer # NoTimer THEN registrar.timer ELSE @]
  /\ ev' = [op |-> "heartbeat"]
  /\ UNCHANGED <<now, httpPeers, byPayer, byHeader, stickyTimer, registered, registryTimer>>
  /\ UNCHANGED gatewayVars
  /\ UNCHANGED <<written, beats, destroyed, calls, supported>>

\* Time passes up to the next tick of the interval timer; once the timer is
\* cleared, up to the deadline it had and one interval beyond.
HeartbeatClock ==
  /\ registrar.started
  /\ IF registrar.timer # NoTimer
       THEN /\ now < registrar.timer
            /\ registrar.ticks < MaxTicks
            /\ now' = registrar.timer
       ELSE /\ now < registrar.due + registrar.interval
            /\ now' = IF now < registrar.due THEN registrar.due
                      ELSE registrar.due + registrar.interval
  /\ ev' = [op |-> "heartbeat"]
  /\ UNCHANGED <<httpPeers, byPayer, byHeader, stickyTimer, registered, registryTimer>>
  /\ UNCHANGED gatewayVars
  /\ UNCHANGED <<written, beats, destroyed, calls>>
  /\ UNCHANGED edgeVars

HeartbeatInit ==
  /\ now = 0
  /\ httpPeers = <<>>
  /\ byPayer = EmptyMap
  /\ byHeader = EmptyMap
  /\ stickyTimer = NoTimer
  /\ registered = <<>>
  /\ registryTimer = NoTimer
  /\ req = [r \in Slots |-> IdleReq]
  /\ arrived = 0
  /\ registers = 0
  /\ lastRegister = NoReply
  /\ lastOk = NoOk
  /\ ev = NoEvent
  /\ written = NoWrites
  /\ beats = NoBeats
  /\ destroyed = NotDestroyed
  /\ calls = 0
  /\ supported = NoAggregation
  /\ registrar = NoRegistrar

HeartbeatNext ==
  \/ \E intervalMs \in IntervalOptions, hasProvider \in BOOLEAN, gateways \in GatewayLists :
       StartRegistration(intervalMs, hasProvider, gateways)
  \/ HeartbeatTick
  \/ \E b \in 1..(MaxTicks + 1), p \in KindsResults : KindsSettle(b, p)
  \/ \E b \in 1..(MaxTicks + 1), out \in {"response", "rejected"} : PostSettles(b, out)
  \/ StopRegistration
  \/ HeartbeatClock

HeartbeatSpec == HeartbeatInit /\ [][HeartbeatNext]_vars

\* ------------------------------------------------------ request normalization

\* The request bodies normalizeForwardBody is called with: every combination
\* of the fields of ForwardBody, the fields under paymentPayload being absent
\* when paymentPayload is.
ForwardBodies ==
  {Body(ph, FALSE, Undefined, Undefined, Undefined, rq) :
     ph \in {Undefined, Str(<<"h">>), Str(<<>>)}, rq \in BOOLEAN}
  \cup
  {Body(b[1], TRUE, b[2], b[3], b[4], b[5]) :
     b \in {Undefined, Str(<<"h">>), Str(<<>>)}
             \X {Undefined, Str(<<"g">>), Num(<<"7">>)}
             \X {Undefined, Str(<<"t">>)}
             \X {Undefined, Str(<<"A", "b">>), Num(<<"7">>)}
             \X BOOLEAN}

\* normalizeForwardBody(inbound)
CallNormalize(inbound) ==
  /\ ev.op = "none"
  /\ ev' = [op |-> "normalizeForwardBody", nth |-> 1, inbound |-> inbound,
            out |-> normalizeForwardBody(inbound)]
  /\ UNCHANGED <<now, httpPeers, byPayer, byHeader, stickyTimer, registered, registryTimer>>
  /\ UNCHANGED gatewayVars
  /\ UNCHANGED <<written, beats, destroyed, calls>>
  /\ UNCHANGED edgeVars

\* normalizeForwardBody applied to the result of the call before.
CallNormalizeAgain ==
  /\ ev.op = "normalizeForwardBody"
  /\ ev.nth = 1
  /\ ev' = [op |-> "normalizeForwardBody", nth |-> 2, inbound |-> ev.out,
            out |-> normalizeForwardBody(ev.out)]
  /\ UNCHANGED <<now, httpPeers, byPayer, byHeader, stickyTimer, registered, registryTimer>>
  /\ UNCHANGED gatewayVars
  /\ UNCHANGED <<written, beats, destroyed, calls>>
  /\ UNCHANGED edgeVars

NormalizeNext ==
  \/ \E inbound \in ForwardBodies : CallNormalize(inbound)
  \/ CallNormalizeAgain

\* Nothing is running: the function is called on its own.
NormalizeInit == HeartbeatInit

NormalizeSpec == NormalizeInit /\ [][NormalizeNext]_vars

\* ------------------------------------------ a registered peer that expires

\* The values of options.httpPeers of the gateway of ExpirySpec.
ExpiryConfigs == {<<PeerA>>, <<PeerA, PeerC>>}

\* What a peer may answer to one call of the gateway of ExpirySpec.
ExpiryResponses == {PeerResponse(200, TrueBody), PeerResponse(500, TrueBody)}

ExpiryInit ==
  /\ now = 0
  /\ httpPeers \in ExpiryConfigs
  /\ byPayer = EmptyMap
  /\ byHeader = EmptyMap
  /\ stickyTimer = CLEANUP_INTERVAL_MS
  /\ registered = <<>>
  /\ registryTimer = CLEANUP_INTERVAL_MS
  /\ req = [r \in Slots |-> IdleReq]
  /\ arrived = 0
  /\ registers = 0
  /\ lastRegister = NoReply
  /\ lastOk = NoOk
  /\ ev = NoEvent
  /\ written = NoWrites
  /\ beats = NoBeats
  /\ destroyed = NotDestroyed
  /\ calls = 0
  /\ supported = NoAggregation
  /\ registrar = NoRegistrar

\* A gateway with one or two static peers at which peer B registers once, at
\* the start, and sends no heartbeat afterwards; verify and settle requests
\* for one payment arrive while the registration is alive and after it expired.
ExpiryNext ==
  \/ Tick
  \/ StickyCleanupTimer
  \/ RegistryCleanupTimer
  \/ registers < MaxRegisters /\ now <= MaxRegisterTime
       /\ HandleRegister(UrlField("string", 0, PeerB, 0), NoKinds)
  \/ \E r \in Slots : arrived < MaxRequests /\ VerifyStart(r, EvmBody)
  \/ \E r \in Slots : arrived < MaxRequests /\ SettleStart(r, EvmBody)
  \/ \E r \in Slots, resp \in ExpiryResponses : PeerResponds(r, resp)
  \/ \E r \in Slots : PeerFails(r)
  \/ \E r \in Slots : CallTimeout(r)
  \/ \E r \in Slots : Retire(r)

ExpirySpec == ExpiryInit /\ [][ExpiryNext]_vars

\* ------------------------------------------------- a settle that is repeated

\* How many requests the gateway of RepeatSpec handles at a time.
RepeatSlots == 2

\* How many requests arrive at the gateway of RepeatSpec.
RepeatRequests == 3

\* The handler slot a request that arrives runs in: the first one that is free.
FreeSlot(r) == req[r].pc = "idle" /\ \A q \in 1..(r - 1) : req[q].pc # "idle"

RepeatInit ==
  /\ now = 0
  /\ httpPeers = <<PeerA>>
  /\ byPayer = EmptyMap
  /\ byHeader = EmptyMap
  /\ stickyTimer = CLEANUP_INTERVAL_MS
  /\ registered = <<>>
  /\ registryTimer = CLEANUP_INTERVAL_MS
  /\ req = [r \in 1..RepeatSlots |-> IdleReq]
  /\ arrived = 0
  /\ registers = 0
  /\ lastRegister = NoReply
  /\ lastOk = NoOk
  /\ ev = NoEvent
  /\ written = NoWrites
  /\ beats = NoBeats
  /\ destroyed = NotDestroyed
  /\ calls = 0
  /\ supported = NoAggregation
  /\ registrar = NoRegistrar

\* A gateway with one static peer at which peer B registers once, at the
\* start: a payment is verified and its settle request is sent more than
\* once, while B's registration is alive and after it expired.
RepeatNext ==
  \/ Tick
  \/ StickyCleanupTimer
  \/ RegistryCleanupTimer
  \/ registers < MaxRegisters /\ now <= MaxRegisterTime
       /\ HandleRegister(UrlField("string", 0, PeerB, 0), NoKinds)
  \/ \E r \in DOMAIN req : arrived < RepeatRequests /\ FreeSlot(r) /\ VerifyStart(r, EvmBody)
  \/ \E r \in DOMAIN req : arrived < RepeatRequests /\ FreeSlot(r) /\ SettleStart(r, EvmBody)
  \/ \E r \in DOMAIN req, resp \in ExpiryResponses : PeerResponds(r, resp)
  \/ \E r \in DOMAIN req : CallTimeout(r)
  \/ \E r \in DOMAIN req : Retire(r)

RepeatSpec == RepeatInit /\ [][RepeatNext]_vars

\* ------------------------------------------------- requests that overlap

\* How many requests the gateway of OverlapSpec handles at a time.
MaxOverlap == 2

\* How many requests arrive at the gateway of OverlapSpec.
OverlapRequests == 3

\* The time up to which the clock of OverlapSpec runs.
OverlapTime == 30000

\* Two payments of one payer: the authorization.from fields differ in letter
\* case only, and one payload carries a header.
OverlapBodies == {EvmHeaderBody, EvmBody}

OverlapInit ==
  /\ now = 0
  /\ httpPeers = <<PeerA, PeerB>>
  /\ byPayer = EmptyMap
  /\ byHeader = EmptyMap
  /\ stickyTimer = CLEANUP_INTERVAL_MS
  /\ registered = <<>>
  /\ registryTimer = CLEANUP_INTERVAL_MS
  /\ req = [r \in 1..MaxOverlap |-> IdleReq]
  /\ arrived = 0
  /\ registers = 0
  /\ lastRegister = NoReply
  /\ lastOk = NoOk
  /\ ev = NoEvent
  /\ written = NoWrites
  /\ beats = NoBeats
  /\ destroyed = NotDestroyed
  /\ calls = 0
  /\ supported = NoAggregation
  /\ registrar = NoRegistrar

\* A gateway with two static peers whose handlers run concurrently: a request
\* arrives while others wait for their peers.
OverlapNext ==
  \/ now < OverlapTime /\ Tick
  \/ StickyCleanupTimer
  \/ RegistryCleanupTimer
  \/ \E r \in DOMAIN req, inbound \in OverlapBodies :
       arrived < OverlapRequests /\ FreeSlot(r) /\ VerifyStart(r, inbound)
  \/ \E r \in DOMAIN req, inbound \in OverlapBodies :
       arrived < OverlapRequests /\ FreeSlot(r) /\ SettleStart(r, inbound)
  \/ \E r \in DOMAIN req, resp \in ExpiryResponses : PeerResponds(r, resp)
  \/ \E r \in DOMAIN req : CallTimeout(r)
  \/ \E r \in DOMAIN req : Retire(r)

OverlapSpec == OverlapInit /\ [][OverlapNext]_vars

\* ------------------------------------------------------- claim vocabulary

\* Call c got a 200 response.
Succeeded(c) == c.out = "response" /\ c.resp.status = 200

\* Call c ended without a 200 response.
Failed(c) == c.out \in {"error", "timeout"} \/ (c.out = "response" /\ c.resp.status # 200)

\* Call c got a well-formed response that is not a success.
Refused(c) == c.out = "response" /\ c.resp.status # 200

\* Every peer of the fallback order of rq was tried and none answered 200.
AllFailed(rq) ==
  /\ rq.pc = "done"
  /\ Len(rq.active) > 0
  /\ Len(rq.calls) = Len(rq.order)
  /\ \A k \in 1..Len(rq.calls) : Failed(rq.calls[k])

\* A payer identity (a non-empty string) or a fingerprint key can be
\* extracted from the inbound body.
KeyExtractable(inbound) ==
  LET b == normalizeForwardBody(inbound)
  IN \/ getPayerFromBody(b).t = "string" /\ Truthy(getPayerFromBody(b))
     \/ Truthy(getHeaderFromBody(b))

\* ----------------------------------------------------------------- claims

\* C1: a settle that arrives less than SELECTION_TTL_MS after a verify of the
\* same body obtained 200 from peer X, with no other verify in between and X
\* still active, sends its first settle call to X.
C1_StickyEndToEnd ==
  \A r \in Slots :
    LET rq == req[r]
    IN (/\ rq.op = "settle"
        /\ rq.pre # NoOk
        /\ rq.pre.body = rq.inbound
        /\ KeyExtractable(rq.inbound)
        /\ rq.startedAt - rq.pre.time < SELECTION_TTL_MS
        /\ rq.pre.peer \in SeqToSet(rq.active))
       => (Len(rq.calls) >= 1 /\ rq.calls[1].peer = rq.pre.peer)

\* C2: in a verify request, a 200 from a peer makes the gateway record the
\* selection for that peer and answer 200 with that peer's body; no later
\* peer is called.
C2_VerifyFirstSuccessWins ==
  \A r \in Slots :
    LET rq == req[r]
    IN rq.op = "verify" =>
         \A k \in 1..Len(rq.calls) :
           Succeeded(rq.calls[k]) =>
             /\ k = Len(rq.calls)
             /\ rq.pc = "done"
             /\ rq.reply = PeerReply(200, rq.calls[k].resp.body)
             /\ rq.recorded = rq.calls[k].peer

\* C3: a verify in which every peer was tried and none answered 200 answers
\* with the last well-formed non-success response in fallback order, whatever
\* failed after it, and with 503 "Verification unavailable" when no peer
\* returned a response.
C3_VerifyNoSuccess ==
  \A r \in Slots :
    LET rq == req[r]
        refused == {k \in 1..Len(rq.calls) : Refused(rq.calls[k])}
    IN (rq.op = "verify" /\ AllFailed(rq)) =>
         IF refused = {}
           THEN rq.reply = ErrorReply(503, "Verification unavailable")
           ELSE LET last == CHOOSE k \in refused : \A j \in refused : j <= k
                IN rq.reply = PeerReply(rq.calls[last].resp.status, rq.calls[last].resp.body)

C3_Witness ==
  \E r \in Slots :
    /\ req[r].op = "verify" /\ AllFailed(req[r])
    /\ Len(req[r].calls) = 2
    /\ Refused(req[r].calls[1])
    /\ req[r].calls[2].out = "timeout"
    /\ req[r].reply.status = 400

\* C4: in a settle request every call after the first is made only after the
\* previous peer failed, a failure is followed by a call to the next peer of
\* the order while one is left, the order holds every active peer, and the
\* first 200 ends the request with that body and status 200.
C4_SettleFallback ==
  \A r \in Slots :
    LET rq == req[r]
    IN (rq.op = "settle" /\ Len(rq.calls) >= 1) =>
         /\ SeqToSet(rq.active) \subseteq SeqToSet(rq.order)
         /\ \A k \in 1..Len(rq.calls) :
              /\ rq.calls[k].peer = rq.order[k]
              /\ k < Len(rq.calls) => Failed(rq.calls[k])
              /\ (Failed(rq.calls[k]) /\ k < Len(rq.order)) => Len(rq.calls) > k
              /\ Succeeded(rq.calls[k]) =>
                   /\ k = Len(rq.calls)
                   /\ rq.pc = "done"
                   /\ rq.reply = PeerReply(200, rq.calls[k].resp.body)

C4_Witness ==
  \E r \in Slots :
    /\ req[r].op = "settle" /\ req[r].pc = "done"
    /\ Len(req[r].calls) = 2
    /\ req[r].calls[1].out = "timeout"
    /\ Succeeded(req[r].calls[2])
    /\ req[r].reply.status = 200

\* C5: a settle in which every peer of the fallback order failed answers 503
\* "Settle unavailable" in the settle error shape; a settle never answers
\* with an upstream response that is not a 200.
C5_SettleNoSuccess ==
  \A r \in Slots :
    LET rq == req[r]
    IN rq.op = "settle" =>
         /\ AllFailed(rq) => rq.reply = SettleErrorReply(503, "Settle unavailable")
         /\ rq.reply.origin = "peer" => rq.reply.status = 200

C5_Witness ==
  \E r \in Slots :
    /\ req[r].op = "settle" /\ AllFailed(req[r])
    /\ Len(req[r].calls) = 2
    /\ Refused(req[r].calls[2])
    /\ req[r].reply = SettleErrorReply(503, "Settle unavailable")

\* C6: a verify or settle that arrives while the active peer set is empty is
\* answered 503 "No peers configured" in the shape of its operation, issues
\* no peer call, leaves the sticky router unchanged and does not throw.
C6_EmptyPeerSet ==
  [][\A r \in Slots :
       (/\ req[r].pc = "idle"
        /\ req'[r].pc # "idle"
        /\ Len(getActivePeers(registered, httpPeers, now)) = 0)
       => /\ req'[r].pc = "done"
          /\ req'[r].calls = <<>>
          /\ req'[r].op = "verify" => req'[r].reply = ErrorReply(503, "No peers configured")
          /\ req'[r].op = "settle" => req'[r].reply = SettleErrorReply(503, "No peers configured")
          /\ byPayer' = byPayer
          /\ byHeader' = byHeader]_vars

\* The empty set is reached with a registered peer that has expired.
C6_Witness ==
  \E r \in Slots :
    /\ req[r].op = "settle" /\ req[r].pc = "done"
    /\ req[r].active = <<>>
    /\ \E i \in 1..Len(registered) :
         req[r].startedAt - registered[i].lastSeenMs > REGISTRY_TTL_MS
    /\ req[r].reply = SettleErrorReply(503, "No peers configured")

\* C7: an answer with status 200 carries the body of a 200 response that a
\* peer called in the same request returned.
C7_NeverFabricatesSuccess ==
  \A r \in Slots :
    LET rq == req[r]
    IN (rq.pc = "done" /\ rq.reply.status = 200) =>
         /\ rq.reply.origin = "peer"
         /\ \E k \in 1..Len(rq.calls) :
              Succeeded(rq.calls[k]) /\ rq.calls[k].resp.body = rq.reply.body

C7_Witness ==
  \E r \in Slots :
    /\ req[r].op = "verify" /\ req[r].pc = "done"
    /\ req[r].reply.status = 200
    /\ Len(req[r].calls) = 2

\* C8: a request has at most one outstanding call, the outstanding call is
\* the latest one, and the calls follow the fallback order.
C8_SequentialFallback ==
  \A r \in Slots :
    LET rq == req[r]
    IN /\ Cardinality(Pending(rq)) <= 1
       /\ Len(rq.calls) <= Len(rq.order)
       /\ \A k \in 1..Len(rq.calls) :
            /\ rq.calls[k].peer = rq.order[k]
            /\ k < Len(rq.calls) => rq.calls[k].out # "pending"

C8_Witness ==
  \E r \in Slots :
    /\ Len(req[r].calls) = 2
    /\ req[r].calls[1].out = "timeout"
    /\ req[r].calls[2].out = "pending"

\* C9 as claimed: per inbound settle request at most one peer is asked.
C9_AtMostOnePeerAsked ==
  \A r \in Slots : req[r].op = "settle" => Len(req[r].calls) <= 1

\* C9 as amended: per inbound settle request no peer is asked twice, and a
\* further peer is asked only after the call to the previous one ended in a
\* non-200 response, a transport error or a timeout.
C9_NoPeerAskedTwice ==
  \A r \in Slots :
    LET rq == req[r]
    IN rq.op = "settle" =>
         /\ \A j, k \in 1..Len(rq.calls) : j # k => rq.calls[j].peer # rq.calls[k].peer
         /\ \A k \in 2..Len(rq.calls) : Failed(rq.calls[k - 1])

C9_Witness ==
  \E r \in Slots :
    /\ req[r].op = "settle"
    /\ Len(req[r].calls) = 2
    /\ req[r].calls[1].out \in {"timeout", "error"}
    /\ req[r].calls[1].peer # req[r].calls[2].peer

\* The timeout postJson is called with in a request of operation op.
TimeoutOf(op) == IF op = "verify" THEN VERIFY_TIMEOUT ELSE SETTLE_TIMEOUT

\* C10: every verify or settle request that has arrived has been answered, or
\* waits for one call whose abort timer is set to go off within the timeout of
\* its operation after each earlier call; it makes at most one call per entry
\* of the fallback order.
C10_AlwaysTerminates ==
  \A r \in Slots :
    LET rq == req[r]
    IN rq.pc # "idle" =>
         /\ Len(rq.calls) <= Len(rq.order)
         /\ \/ rq.reply # NoReply
            \/ \E k \in Pending(rq) :
                 rq.calls[k].deadline <= rq.startedAt + Len(rq.calls) * TimeoutOf(rq.op)

\* ------------------------------------------------- claims on the two classes

\* The payer identity a lookup body carries: authorization.from in lower case,
\* when it is a non-empty string.
PayerKeyOf(body) ==
  LET from == getPayerFromBody(body)
  IN IF from.t = "string" /\ from.v # <<>> THEN toLowerCase(from) ELSE Undefined

\* The fingerprint key a lookup body carries.
HeaderKeyOf(body) == getHeaderFromBody(body)

\* The body carries no authorization.from at all.
NoFrom(body) == getPayerFromBody(body).t = "undefined"

\* The latest getPreferredPeer call looked up payer key k and nothing else.
LookedUpPayerOnly(k) ==
  /\ ev.op = "getPreferredPeer"
  /\ PayerKeyOf(ev.body) = k
  /\ ~Truthy(HeaderKeyOf(ev.body))

\* The latest getPreferredPeer call looked up fingerprint key k and nothing else.
LookedUpHeaderOnly(k) ==
  /\ ev.op = "getPreferredPeer"
  /\ HeaderKeyOf(ev.body) = k
  /\ NoFrom(ev.body)

\* C11: a sticky entry written by recordSelection at time T is returned by a
\* getPreferredPeer that looks up its key at every time t with
\* T <= t < T + 60000 and is not returned at any t >= T + 60000, whether or
\* not cleanup() ran in between. (The lookup is by that key alone; the entry is
\* the latest one written under the key.)
C11_StickyTtlWindow ==
  /\ \A k \in DOMAIN written.payer :
       LookedUpPayerOnly(k) =>
         /\ ~ev.threw
         /\ (written.payer[k].at <= now /\ now < written.payer[k].at + 60000)
              => ev.peer = written.payer[k].peer
         /\ now >= written.payer[k].at + 60000 => ev.peer = NoPeer
  /\ \A k \in DOMAIN written.header :
       LookedUpHeaderOnly(k) =>
         /\ ~ev.threw
         /\ (written.header[k].at <= now /\ now < written.header[k].at + 60000)
              => ev.peer = written.header[k].peer
         /\ now >= written.header[k].at + 60000 => ev.peer = NoPeer

\* A lookup at the very instant T + 60000 missed an entry that no cleanup()
\* had removed, and one a millisecond earlier would be in the window.
C11_Witness ==
  \E k \in DOMAIN written.header :
    /\ LookedUpHeaderOnly(k)
    /\ now = written.header[k].at + 60000
    /\ k \in DOMAIN byHeader
    /\ ev.peer = NoPeer

\* The normalized urls of a static list.
StaticNames(staticPeers) == {normalizeUrl(staticPeers[i]) : i \in 1..Len(staticPeers)}

\* The normalized urls of the peers registered since the registry was made or
\* destroyed.
RegisteredNames == {normalizeUrl(u) : u \in DOMAIN beats}

\* The time of the last register call of the peer with normalized url n.
LastBeat(n) ==
  LET ats == {beats[u].at : u \in {v \in DOMAIN beats : normalizeUrl(v) = n}}
  IN CHOOSE a \in ats : \A b \in ats : b <= a

\* C12, as claimed: a peer not in the static list whose last register call
\* happened at time T is in getActivePeers at every t with
\* T <= t < T + 120000 and is not in it at any t >= T + 120000, exactly
\* t = T + 120000 included, whether or not cleanup() ran in between.
C12_RegistryTtlHalfOpen ==
  ev.op = "getActivePeers" =>
    \A n \in RegisteredNames \ StaticNames(ev.staticPeers) :
      /\ (LastBeat(n) <= now /\ now < LastBeat(n) + 120000) => n \in SeqToSet(ev.out)
      /\ now >= LastBeat(n) + 120000 => n \notin SeqToSet(ev.out)

\* C12, amended: such a peer is in getActivePeers at every t with
\* T <= t <= T + 120000, exactly t = T + 120000 included, and is not in it
\* at any t > T + 120000, whether or not cleanup() ran in between.
C12_RegistryTtlWindow ==
  ev.op = "getActivePeers" =>
    \A n \in RegisteredNames \ StaticNames(ev.staticPeers) :
      /\ (LastBeat(n) <= now /\ now <= LastBeat(n) + 120000) => n \in SeqToSet(ev.out)
      /\ now > LastBeat(n) + 120000 => n \notin SeqToSet(ev.out)

\* getActivePeers was called at the very instant T + 120000 and returned
\* the peer.
C12_Witness ==
  /\ ev.op = "getActivePeers"
  /\ \E n \in RegisteredNames \ StaticNames(ev.staticPeers) :
       /\ now = LastBeat(n) + 120000
       /\ n \in SeqToSet(ev.out)

\* The sequence s has no element twice.
NoDuplicates(s) == \A i, j \in 1..Len(s) : i # j => s[i] # s[j]

\* The normalized urls of the registered peers that have not expired: those
\* with a register call no more than 120000 ms ago.
FreshNames == {normalizeUrl(u) : u \in {v \in DOMAIN beats : now - beats[v].at <= 120000}}

\* C13: after any sequence of register, cleanup and destroy calls and at every
\* time, getActivePeers(staticPeers) returns a list without duplicate urls that
\* is exactly the union of the normalized static peers and the normalized urls
\* of the non-expired registered peers; every static peer is in it whatever
\* the time and whether or not destroy() was called, and a url that is both in
\* the static list and in the registry appears once.
C13_ActivePeerSet ==
  ev.op = "getActivePeers" =>
    /\ NoDuplicates(ev.out)
    /\ SeqToSet(ev.out) = StaticNames(ev.staticPeers) \cup FreshNames
    /\ \A i \in 1..Len(ev.staticPeers) :
         Cardinality({j \in 1..Len(ev.out) : ev.out[j] = normalizeUrl(ev.staticPeers[i])}) = 1

\* getActivePeers was called with a static list that names a peer which is
\* also registered and not expired, under a different spelling of its url.
C13_Witness ==
  /\ ev.op = "getActivePeers"
  /\ StaticNames(ev.staticPeers) \cap FreshNames # {}
  /\ \E i \in 1..Len(ev.staticPeers) : ev.staticPeers[i] \notin SeqToSet(ev.out)
  /\ Len(ev.out) = 2

\* The urls that are keys of the registered map reg.
RegisteredUrls(reg) == {reg[i].url : i \in 1..Len(reg)}

\* The entry of url u in the registered map reg.
EntryOf(reg, u) == reg[CHOOSE i \in 1..Len(reg) : reg[i].url = u]

\* A register call on a url that is already registered leaves the size of the
\* registry unchanged and sets the entry's lastSeenMs to the time of the call.
RefreshStep ==
  (ev'.op = "register" /\ ev'.url \in RegisteredUrls(registered)) =>
    /\ registrySize(registered') = registrySize(registered)
    /\ EntryOf(registered', ev'.url).lastSeenMs = now'

\* A peer registered at T0 and registered again at T1, T0 <= T1 <= T0 + TTL,
\* is in the active set at every time before T1 + TTL.
RefreshedStaysActive ==
  ev.op = "getActivePeers" =>
    \A u \in DOMAIN beats :
      (/\ beats[u].prev <= beats[u].at
       /\ beats[u].at <= beats[u].prev + 120000
       /\ now < beats[u].at + 120000)
        => normalizeUrl(u) \in SeqToSet(ev.out)

\* C14: register on an already registered url resets that peer's expiry clock
\* to the time of the latest call and leaves the registry size unchanged; a
\* peer registered at T0 and registered again at T1 with T0 <= T1 <= T0 + TTL
\* stays in the active set until T1 + TTL, so it is still active at
\* T0 + TTL + e for small e > 0.
C14_HeartbeatRefresh == [][RefreshStep]_vars /\ []RefreshedStaysActive

\* getActivePeers, called 1 ms after the first registration of a peer would
\* have expired, returned the peer, which was registered again in between.
C14_Witness ==
  /\ ev.op = "getActivePeers"
  /\ ev.staticPeers = <<>>
  /\ \E u \in DOMAIN beats :
       /\ beats[u].prev < beats[u].at
       /\ now = beats[u].prev + 120000 + 1
       /\ normalizeUrl(u) \in SeqToSet(ev.out)
       /\ registrySize(registered) = 1

\* The indices of the entries of the registered map that are at most
\* 120000 ms old.
YoungEntries == {i \in 1..Len(registered) : now - registered[i].lastSeenMs <= 120000}

\* C15: PeerRegistry.cleanup() removes exactly the registered entries with
\* now - lastSeenMs > 120000 and leaves every other entry (url, kinds,
\* lastSeenMs) unchanged; the size afterwards is the number of entries that
\* were at most 120000 ms old.
C15_RegistryCleanup ==
  [][ev'.op = "registryCleanup" =>
       /\ RegisteredUrls(registered') = {registered[i].url : i \in YoungEntries}
       /\ \A i \in YoungEntries : EntryOf(registered', registered[i].url) = registered[i]
       /\ registrySize(registered') = Cardinality(YoungEntries)]_vars

\* cleanup() has removed one registered peer and kept another, which was
\* exactly 120000 ms old.
C15_Witness ==
  /\ ev.op = "registryCleanup"
  /\ \E u \in DOMAIN beats : u \notin RegisteredUrls(registered)
  /\ \E i \in 1..Len(registered) : now - registered[i].lastSeenMs = 120000

\* The keys of sticky map m whose entry has not expired.
Unexpired(m) == {k \in DOMAIN m : m[k].expiresAt > now}

\* C16: StickyRouter.cleanup() removes from both keyspaces exactly the entries
\* whose expiry time has been reached (expiresAt <= now) and leaves every
\* other entry unchanged; size.payers and size.headers afterwards count the
\* non-expired entries only.
C16_StickyCleanup ==
  [][ev'.op = "stickyCleanup" =>
       /\ DOMAIN byPayer' = Unexpired(byPayer)
       /\ DOMAIN byHeader' = Unexpired(byHeader)
       /\ \A k \in Unexpired(byPayer) : byPayer'[k] = byPayer[k]
       /\ \A k \in Unexpired(byHeader) : byHeader'[k] = byHeader[k]
       /\ stickySize(byPayer', byHeader') =
            [payers |-> Cardinality(Unexpired(byPayer)),
             headers |-> Cardinality(Unexpired(byHeader))]]_vars

\* cleanup() has removed an entry at the very instant it expired and kept
\* another in the same keyspace.
C16_Witness ==
  /\ ev.op = "stickyCleanup"
  /\ \E k \in DOMAIN written.header :
       /\ k \notin DOMAIN byHeader
       /\ now = written.header[k].at + 60000
  /\ DOMAIN byHeader # {}

\* destroy() on the StickyRouter leaves both keyspaces empty and no timer, and
\* does not touch the PeerRegistry.
StickyDestroyStep ==
  ev'.op = "stickyDestroy" =>
    /\ stickySize(byPayer', byHeader') = [payers |-> 0, headers |-> 0]
    /\ stickyTimer' = NoTimer
    /\ UNCHANGED <<registered, registryTimer>>

\* destroy() on the PeerRegistry leaves no entry and no timer, and does not
\* touch the StickyRouter.
RegistryDestroyStep ==
  ev'.op = "registryDestroy" =>
    /\ registrySize(registered') = 0
    /\ registryTimer' = NoTimer
    /\ UNCHANGED <<byPayer, byHeader, stickyTimer>>

\* Once destroy() was called on a component its timer stays cleared and no
\* step is a timer-driven cleanup of it.
NoTickAfterDestroy ==
  /\ destroyed.sticky =>
       /\ stickyTimer' = NoTimer
       /\ ~(ev'.op = "stickyCleanup" /\ ev'.by = "timer")
  /\ destroyed.registry =>
       /\ registryTimer' = NoTimer
       /\ ~(ev'.op = "registryCleanup" /\ ev'.by = "timer")

\* A cleanup() call right after destroy() changes nothing.
CleanupAfterDestroy ==
  /\ (ev.op = "stickyDestroy" /\ ev'.op = "stickyCleanup") =>
       UNCHANGED <<byPayer, byHeader, stickyTimer, registered, registryTimer>>
  /\ (ev.op = "registryDestroy" /\ ev'.op = "registryCleanup") =>
       UNCHANGED <<byPayer, byHeader, stickyTimer, registered, registryTimer>>

\* destroy() on a component already destroyed changes nothing but the entries
\* written since, which it clears.
DestroyAgain ==
  /\ (destroyed.sticky /\ ev'.op = "stickyDestroy") =>
       /\ byPayer' = EmptyMap /\ byHeader' = EmptyMap
       /\ UNCHANGED <<stickyTimer, registered, registryTimer, destroyed>>
  /\ (destroyed.registry /\ ev'.op = "registryDestroy") =>
       /\ registered' = <<>>
       /\ UNCHANGED <<byPayer, byHeader, stickyTimer, registryTimer, destroyed>>

\* C17: destroy() on the PeerRegistry or on the StickyRouter clears all entries
\* (registry size 0; sticky size.payers = 0 and size.headers = 0) and halts
\* the background timer so that no timer-driven cleanup tick runs afterwards;
\* a cleanup() call after destroy() changes nothing, and calling destroy()
\* again is harmless.
C17_Destroy ==
  [][/\ StickyDestroyStep
     /\ RegistryDestroyStep
     /\ NoTickAfterDestroy
     /\ CleanupAfterDestroy
     /\ DestroyAgain]_vars

\* destroy() has cleared a running timer on each of the two components, the
\* clock has passed both cleared deadlines, and a cleanup() call was made
\* after that.
C17_Witness ==
  /\ destroyed.sticky /\ destroyed.registry
  /\ destroyed.stickyDue # NoTimer /\ now > destroyed.stickyDue
  /\ destroyed.registryDue # NoTimer /\ now > destroyed.registryDue
  /\ calls > 0
  /\ ev.op \in {"stickyCleanup", "registryCleanup"}

\* The entry of key k in sticky map m is live.
LiveEntry(m, k) == k \in DOMAIN m /\ m[k].expiresAt > now

\* C18: getPreferredPeer returns the peer of the non-expired payer-keyspace
\* entry for the request's payer identity (compared without regard to case)
\* when there is one; otherwise the peer of the non-expired fingerprint-keyspace
\* entry for the request's fingerprint key when there is one; otherwise none.
\* A non-expired payer entry so takes precedence over a fingerprint entry
\* that names another peer.
C18_LookupOrder ==
  ev.op = "getPreferredPeer" =>
    /\ ~ev.threw
    /\ ev.peer =
         IF LiveEntry(byPayer, PayerKeyOf(ev.body))
           THEN byPayer[PayerKeyOf(ev.body)].peer
         ELSE IF LiveEntry(byHeader, HeaderKeyOf(ev.body))
           THEN byHeader[HeaderKeyOf(ev.body)].peer
         ELSE NoPeer

\* The payer identity recordSelection is said to extract: the payer of the
\* verify response when it is a non-empty string, otherwise
\* paymentPayload.payload.authorization.from of the request.
ClaimedPayer(body, response) ==
  IF response.t = "object" /\ response.payer.t = "string" /\ response.payer.v # <<>>
    THEN response.payer
  ELSE IF body.hasPayload THEN body.from
  ELSE Undefined

\* The fingerprint key recordSelection is said to extract: paymentHeader, else
\* paymentPayload.header, else the non-empty paymentPayload.payload.transaction.
ClaimedKey(body) ==
  IF body.paymentHeader.t = "string" /\ body.paymentHeader.v # <<>>
    THEN body.paymentHeader
  ELSE IF body.hasPayload /\ body.header.t = "string" /\ body.header.v # <<>>
    THEN body.header
  ELSE IF body.hasPayload /\ body.transaction.t = "string" /\ body.transaction.v # <<>>
    THEN body.transaction
  ELSE Undefined

\* Map m2 is map m1 with the entry of key k set to e, when k is a key.
SetOnly(m1, m2, k, e) ==
  IF k.t = "undefined" \/ k.v = <<>>
    THEN m2 = m1
    ELSE /\ DOMAIN m2 = DOMAIN m1 \cup {k}
         /\ m2[k] = e
         /\ \A x \in DOMAIN m1 \ {k} : m2[x] = m1[x]

\* C19: recordSelection takes as payer identity the non-empty string payer of
\* the verify response when present, otherwise authorization.from of the
\* request, and as fingerprint key paymentHeader, else paymentPayload.header,
\* else the non-empty transaction string. It writes one entry
\* {peer, expiresAt = now + 60000} in each keyspace whose key was extracted,
\* touches no other entry, and when neither key can be extracted writes
\* nothing and raises no error.
C19_RecordSelectionKeys ==
  [][ev'.op = "recordSelection" =>
       LET payer == ClaimedPayer(ev'.body, ev'.response)
           entry == StickyEntry(ev'.peer, now + 60000)
       IN /\ ~ev'.threw
          /\ SetOnly(byPayer, byPayer',
                     IF payer.t = "string" THEN toLowerCase(payer) ELSE payer, entry)
          /\ SetOnly(byHeader, byHeader', ClaimedKey(ev'.body), entry)]_vars

\* The body of the latest getPreferredPeer call carries the payer identity
\* that the recordSelection call right before it recorded, in some letter
\* case, or carries no payer identity and the fingerprint key recorded.
SameKeyLookup ==
  /\ ev.op = "recordSelection"
  /\ ev'.op = "getPreferredPeer"
  /\ LET payer == ClaimedPayer(ev.body, ev.response)
         from == getPayerFromBody(ev'.body)
     IN \/ /\ payer.t = "string" /\ payer.v # <<>>
           /\ from.t = "string"
           /\ toLowerCase(from) = toLowerCase(payer)
        \/ /\ from.t # "string"
           /\ ClaimedKey(ev.body).t = "string"
           /\ ClaimedKey(ev'.body) = ClaimedKey(ev.body)

\* Every entry the body of the latest getPreferredPeer call can match was
\* written SELECTION_TTL or more ago.
OnlyElapsed ==
  LET pk == PayerKeyOf(ev.body)
      hk == HeaderKeyOf(ev.body)
  IN /\ ev.op = "getPreferredPeer"
     /\ pk \in DOMAIN written.payer \/ hk \in DOMAIN written.header
     /\ pk \in DOMAIN written.payer => now >= written.payer[pk].at + 60000
     /\ hk \in DOMAIN written.header => now >= written.header[hk].at + 60000

\* C20: recordSelection(peer, body, response) followed immediately by
\* getPreferredPeer on a body carrying the same payer identity in any letter
\* case, or carrying the same fingerprint key, returns the recorded peer; once
\* SELECTION_TTL has elapsed it returns none.
C20_RoundTrip ==
  /\ [][SameKeyLookup => (~ev'.threw /\ ev'.peer = ev.peer)]_vars
  /\ [](OnlyElapsed => (~ev.threw /\ ev.peer = NoPeer))

\* ------------------------------------------------- claims on the endpoints

\* The text of a url field without the white space around it; the empty
\* string when the field is missing.
TrimmedText(field) == IF field.t = "string" THEN field.url ELSE NoPeer

\* The text starts with http:// or https://, in any letter case.
StartsWithHttp(u) ==
  LET lower == CASE u.scheme = "HTTP://" -> "http://"
                 [] u.scheme = "HTTPS://" -> "https://"
                 [] OTHER -> u.scheme
  IN lower = "http://" \/ lower = "https://"

\* The registered map reg2 is reg1 with the entry of url u inserted or
\* refreshed at time t.
InsertedOrRefreshed(reg1, reg2, u, t) ==
  /\ RegisteredUrls(reg2) = RegisteredUrls(reg1) \cup {u}
  /\ EntryOf(reg2, u).lastSeenMs = t
  /\ \A v \in RegisteredUrls(reg1) \ {u} : EntryOf(reg2, v) = EntryOf(reg1, v)

\* The answer to a POST /register whose url is empty after trimming or has no
\* http(s) scheme is 400 and the registry stays as it is; otherwise the answer
\* is 200 {ok: true}, the trimmed url is inserted or refreshed, and a GET /peers
\* answered right after lists it (without its trailing slash).
RegisterStep ==
  registers' # registers =>
    LET u == TrimmedText(ev'.url)
    IN IF u = NoPeer \/ ~StartsWithHttp(u)
         THEN /\ lastRegister'.status = 400
              /\ registered' = registered
         ELSE /\ lastRegister'.status = 200 /\ lastRegister'.origin = "ok"
              /\ InsertedOrRefreshed(registered, registered', u, now)
              /\ normalizeUrl(u) \in SeqToSet(getActivePeers(registered', httpPeers, now'))

\* No url without an http(s) scheme is registered, and GET /peers lists
\* static peers and urls with an http(s) scheme only.
OnlyValidListed ==
  /\ \A i \in 1..Len(registered) : StartsWithHttp(registered[i].url)
  /\ ev.op = "GET /peers" =>
       \A i \in 1..Len(ev.peers) :
         ev.peers[i] \in StaticNames(httpPeers) \/ StartsWithHttp(ev.peers[i])

\* C21: a POST /register body whose url, after trimming, is empty or does not
\* start with http:// or https:// (in any letter case) is answered 400 and
\* leaves the registry unchanged, so that url never appears in a later
\* GET /peers result; a valid url is answered 200 {ok: true}, is inserted or
\* refreshed in the registry and appears in the next GET /peers result.
C21_RegisterValidation == [][RegisterStep]_vars /\ []OnlyValidListed

\* A url sent with white space around it and a url with an upper-case scheme
\* were answered 200, another url was answered 400, and GET /peers lists the
\* two.
C21_Witness ==
  /\ ev.op = "GET /peers"
  /\ registers = 3
  /\ lastRegister.status = 400
  /\ RegisteredUrls(registered) = {PeerB, Url("HTTPS://", "B", 1)}
  /\ SeqToSet(ev.peers) = StaticNames(httpPeers) \cup {PeerB, Url("HTTPS://", "B", 0)}

\* ---------------------------------------- claims on capability aggregation

\* The fields of a descriptor, whatever the order they are listed in.
Fields(k) == {k[i] : i \in 1..Len(k)}

\* The descriptors the peers that returned a kinds list returned.
Returned ==
  UNION {SeqToSet(supported.results[i].kinds.v) :
           i \in {j \in 1..Len(supported.results) :
                    supported.results[j].t = "json" /\ supported.results[j].kinds.t = "array"}}

\* C22: the list aggregateSupportedKinds returns contains every descriptor
\* returned by any responding peer and no two descriptors that are
\* field-for-field identical, regardless of the order in which peers or fields
\* were listed; for peers {A, B} with A returning [x] and B returning [x, y] it
\* is exactly {x, y}; it is the empty list when there are no active peers.
C22_AggregationResult ==
  supported.pc = "done" =>
    /\ \A k \in Returned : \E i \in 1..Len(supported.kinds) : Fields(supported.kinds[i]) = Fields(k)
    /\ \A i, j \in 1..Len(supported.kinds) :
         i # j => Fields(supported.kinds[i]) # Fields(supported.kinds[j])
    /\ (/\ Len(supported.peers) = 2
        /\ supported.results[1].kinds = Kinds(<<KindX>>)
        /\ supported.results[2].kinds = Kinds(<<KindX, KindY>>))
         => supported.kinds = <<KindX, KindY>>
    /\ Len(supported.peers) = 0 => supported.kinds = <<>>

\* The i-th capability-discovery call failed: transport error, a body that is
\* not JSON, or a body without a kinds list.
DiscoveryFailed(i) ==
  \/ supported.results[i].t \in {"error", "notJson"}
  \/ supported.results[i].t = "json" /\ supported.results[i].kinds.t # "array"

\* C23: a peer whose capability-discovery call fails (transport error,
\* non-JSON body, or a body without a kinds list) contributes the empty list
\* and never aborts the aggregation: once every call has ended, GET /supported
\* answers 200 with a list that holds the descriptors of all other peers and
\* nothing else, and that is empty when every peer failed.
C23_FailureIsolation ==
  /\ (supported.pc # "idle" /\ \A i \in 1..Len(supported.results) :
                                 supported.results[i] # DiscoveryPending)
       => supported.pc = "done" /\ supported.status = 200
  /\ supported.pc = "done" =>
       /\ SeqToSet(supported.kinds) = Returned
       /\ (\A i \in 1..Len(supported.results) : DiscoveryFailed(i)) => supported.kinds = <<>>

\* GET /supported was answered with the descriptors of one peer while the
\* calls to the two other peers had failed, one in transport and one with a
\* body that is not JSON.
C23_Witness ==
  /\ supported.pc = "done"
  /\ Len(supported.peers) = 3
  /\ supported.results[1].t = "error"
  /\ supported.results[3].t = "notJson"
  /\ supported.kinds = <<KindX, KindY>>

\* ------------------------------------------- claims on the heartbeat emitter

\* One heartbeat began at startup and one at every tick of the interval since;
\* the next tick is scheduled one interval after the last one while the
\* emitter is not stopped, and none is scheduled once it is.
HeartbeatPerTick ==
  registrar.started =>
    /\ Len(registrar.beats) = 1 + registrar.ticks
    /\ \A b \in 1..Len(registrar.beats) :
         registrar.beats[b].begunAt = registrar.startedAt + (b - 1) * registrar.interval
    /\ IF registrar.stopped
         THEN registrar.timer = NoTimer
         ELSE /\ registrar.timer = registrar.startedAt + (registrar.ticks + 1) * registrar.interval
              /\ now <= registrar.timer

\* Every POST sent belongs to a heartbeat (or is the first of one) that began
\* while the emitter was not stopped: no heartbeat begins after stop.
NoBeatAfterStop ==
  (registrar.started /\ registrar.stopped) => Len(registrar'.beats) = Len(registrar.beats)

\* The stop operation leaves every heartbeat in flight where it is.
StopCancelsNothing ==
  (registrar.started /\ ~registrar.stopped /\ registrar'.stopped) =>
    registrar'.beats = registrar.beats

\* A heartbeat in flight goes on after stop as before it: when its call
\* settles, it sends its next POST while a gateway is left.
InFlightGoesOn ==
  registrar.started =>
    \A b \in 1..Len(registrar.beats) :
      LET hb == registrar.beats[b]
          hb2 == registrar'.beats[b]
      IN (hb.pc \in {"kinds", "post"} /\ hb2 # hb /\ hb.gw < Len(registrar.gateways))
           => hb2.pc = "post" /\ Len(hb2.sent) = Len(hb.sent) + 1

\* C24: startGatewayRegistration fires one heartbeat immediately at startup and
\* one on every interval tick thereafter; after the stop operation is called no
\* heartbeat that had not already begun sends any POST (none begins); a
\* heartbeat in flight when stop is called is not cancelled and still sends
\* its remaining POSTs.
C24_HeartbeatLifecycle ==
  /\ [][NoBeatAfterStop /\ StopCancelsNothing /\ InFlightGoesOn]_vars
  /\ []HeartbeatPerTick

\* The emitter was stopped after one tick, the clock has passed the deadline
\* of the tick that stop cancelled, and a heartbeat that was in flight at the
\* stop has sent a POST after it.
C24_Witness ==
  /\ registrar.started /\ registrar.stopped
  /\ registrar.ticks = 1
  /\ now > registrar.due
  /\ Len(registrar.beats) = 2
  /\ \E i \in 1..Len(registrar.beats[2].sent) : registrar.beats[2].sent[i].stopped

\* The POSTs of a heartbeat go to the configured gateways in order, each sent
\* once the one before it settled.
PostsInOrder(hb) ==
  /\ Len(hb.sent) = hb.gw
  /\ \A i \in 1..Len(hb.sent) :
       /\ hb.sent[i].to = normalizeUrl(registrar.gateways[i])
       /\ hb.sent[i].url = normalizeUrl(registrar.nodeBaseUrl)
       /\ hb.sent[i].kinds = hb.kinds
       /\ (i < Len(hb.sent) \/ hb.pc = "done") => hb.sent[i].out \in {"response", "rejected"}

\* No heartbeat ended in an exception; one that is over has sent a POST to
\* every gateway, whatever became of the POSTs; one whose kindsProvider
\* failed carries no kinds.
EveryGatewayTried ==
  registrar.started =>
    \A b \in 1..Len(registrar.beats) :
      LET hb == registrar.beats[b]
      IN /\ hb.pc \in {"kinds", "post", "done"}
         /\ PostsInOrder(hb)
         /\ hb.pc = "done" => Len(hb.sent) = Len(registrar.gateways)
         /\ hb.provided \in {"other", "throws"} => hb.kinds = NoKinds

\* A step in which a POST fails or the kindsProvider fails leaves the
\* interval timer as it is.
FailureKeepsTimer ==
  registrar.started =>
    ((\E b \in 1..Len(registrar.beats) :
        LET hb == registrar.beats[b]
            hb2 == registrar'.beats[b]
        IN \/ hb.pc = "post" /\ hb2.sent[hb.gw].out = "rejected"
           \/ hb.pc = "kinds" /\ hb2.provided \in {"other", "throws"})
      => /\ registrar'.timer = registrar.timer
         /\ registrar'.stopped = registrar.stopped)

\* C25: within one heartbeat a POST /register is attempted to every configured
\* gateway url; a failed POST to one gateway, or a failing kindsProvider (which
\* yields a heartbeat without kinds), neither throws out of the heartbeat nor
\* prevents the POSTs to the remaining gateways nor stops later ticks.
C25_HeartbeatTolerance == [][FailureKeepsTimer]_vars /\ []EveryGatewayTried

\* A heartbeat whose kindsProvider threw and whose POST to the first gateway
\* failed has sent its POST to the second gateway, and the next tick has begun
\* another heartbeat.
C25_Witness ==
  /\ registrar.started
  /\ Len(registrar.beats) = 2
  /\ registrar.beats[1].pc = "done"
  /\ registrar.beats[1].provided = "throws"
  /\ registrar.beats[1].sent[1].out = "rejected"
  /\ Len(registrar.beats[1].sent) = 2
  /\ Len(registrar.beats[2].sent) >= 1

\* ----------------------------------------- claims on request normalization

\* The body has the shape {paymentPayload, paymentRequirements}.
SpecShape(body) == body.hasPayload /\ body.hasRequirements

\* The body has the shape {paymentHeader, paymentRequirements} with a header
\* string and no paymentPayload.
LegacyShape(body) ==
  /\ ~body.hasPayload /\ body.hasRequirements
  /\ body.paymentHeader.t = "string" /\ body.paymentHeader.v # <<>>

Arrives(r) == req[r].pc = "idle" /\ req'[r].pc # "idle"

\* The peers of a sequence from its second element on.
Rest(order) == {order[i] : i \in 2..Len(order)}

\* C27: in every verify and every settle request the fallback order has the
\* chosen peer first (for settle the peer returned by the sticky router
\* whenever it returns one, otherwise a picked active peer), followed by all
\* remaining active peers, each exactly once; the first call of the request
\* goes to that peer, so the peer the sticky router prefers is the first to
\* receive the settle call, for any size of the active peer set.
C27_FallbackOrderShape ==
  [][\A r \in DOMAIN req :
       (Arrives(r) /\ Len(req'[r].active) > 0 /\ req'[r].pc # "threw") =>
         LET rq == req'[r]
             preferred == getPreferredPeer(byPayer, byHeader, rq.body, now).peer
         IN /\ Len(rq.order) >= 1
            /\ (rq.op = "settle" /\ preferred # NoPeer) => rq.order[1] = preferred
            /\ (rq.op = "verify" \/ preferred = NoPeer) => rq.order[1] \in SeqToSet(rq.active)
            /\ NoDuplicates(rq.order)
            /\ Rest(rq.order) = SeqToSet(rq.active) \ {rq.order[1]}
            /\ Len(rq.calls) >= 1 /\ rq.calls[1].peer = rq.order[1]]_vars

\* C28: every peer that receives a verify or settle call during a request is
\* a member of the active peer set computed at the start of that request; a
\* sticky binding to a registered peer that has since expired from the
\* registry never causes a settle call to that peer.
C28_OnlyActivePeersCalled ==
  \A r \in DOMAIN req :
    \A k \in 1..Len(req[r].calls) : req[r].calls[k].peer \in SeqToSet(req[r].active)

\* ------------------------------------------------- claims on overlapping requests

\* The verify request in slot a succeeded on peer x and its answer is still
\* being written: no time has passed since.
VerifiedOn(a, x) ==
  /\ req[a].op = "verify"
  /\ req[a].pc = "done"
  /\ x # NoPeer
  /\ req[a].recorded = x

\* C29: if the verify of transaction t succeeded on peer X, a settle of t
\* within the sticky TTL sends its first call to X, whatever other requests
\* came between them, successful verifies of another transaction of the same
\* payer on another peer included. The last verify success of t itself is the
\* one on X.
C29_StickyUnderInterleaving ==
  [][\A a, c \in DOMAIN req :
       \A x \in SeqToSet(httpPeers) :
         (/\ Arrives(c)
          /\ req'[c].op = "settle"
          /\ VerifiedOn(a, x)
          /\ req[a].inbound = req'[c].inbound
          /\ lastOk.body = req[a].inbound => lastOk.peer = x)
           => /\ Len(req'[c].calls) >= 1
              /\ req'[c].calls[1].peer = x]_vars

\* The verify request in slot r gets its 200 in this step.
VerifySucceeds(r) ==
  /\ req[r].op = "verify"
  /\ req[r].pc = "calling"
  /\ req'[r].pc = "done"
  /\ req'[r].recorded # NoPeer

\* A verify success overwrites the entries under its keys with the peer that
\* answered and the expiry now + 60000.
SuccessOverwrites ==
  \A r \in DOMAIN req :
    VerifySucceeds(r) =>
      LET payer == ClaimedPayer(req[r].body, req'[r].reply.body)
          key == ClaimedKey(req[r].body)
          entry == StickyEntry(req'[r].recorded, now + 60000)
      IN /\ payer.t = "string" =>
              /\ toLowerCase(payer) \in DOMAIN byPayer'
              /\ byPayer'[toLowerCase(payer)] = entry
         /\ key.t = "string" =>
              /\ key \in DOMAIN byHeader'
              /\ byHeader'[key] = entry

\* The verify success processed last is that of the request in slot a.
ProcessedLast(a) ==
  /\ VerifiedOn(a, req[a].recorded)
  /\ lastOk.peer = req[a].recorded
  /\ lastOk.body = req[a].inbound
  /\ \A b \in DOMAIN req \ {a} :
       ~(VerifiedOn(b, req[a].recorded) /\ req[b].inbound = req[a].inbound)

\* The entries under the keys of the verify whose success was processed last
\* name the peer of that verify.
LastSuccessNamed ==
  \A a \in DOMAIN req :
    ProcessedLast(a) =>
      LET payer == ClaimedPayer(req[a].body, req[a].reply.body)
          key == ClaimedKey(req[a].body)
          entry == StickyEntry(req[a].recorded, now + 60000)
      IN /\ payer.t = "string" =>
              /\ toLowerCase(payer) \in DOMAIN byPayer
              /\ byPayer[toLowerCase(payer)] = entry
         /\ key.t = "string" =>
              /\ key \in DOMAIN byHeader
              /\ byHeader[key] = entry

\* C30: a successful verify overwrites any existing sticky entry under the same
\* payer or fingerprint key with the newly succeeding peer and a fresh expiry
\* now + 60000 ms; when two verify requests for the same key overlap in time,
\* after both have completed the entry names the peer of the verify whose
\* success response was processed last.
C30_LastVerifyWins == [][SuccessOverwrites]_vars /\ []LastSuccessNamed

\* Two verify requests of one payer have succeeded on different peers; the one
\* in slot a began at an earlier time than the present one, at which both
\* successes were processed, that of b first: the two overlapped. The payer's
\* entry names the peer of a.
C30_Witness ==
  \E a, b \in DOMAIN req :
    \E x, y \in SeqToSet(httpPeers) :
      /\ a # b /\ x # y
      /\ VerifiedOn(a, x) /\ VerifiedOn(b, y)
      /\ PayerKeyOf(req[a].body) = PayerKeyOf(req[b].body)
      /\ req[a].startedAt < now
      /\ ProcessedLast(a)
      /\ PayerKeyOf(req[a].body) \in DOMAIN byPayer
      /\ byPayer[PayerKeyOf(req[a].body)] = StickyEntry(x, now + 60000)

\* ------------------------------------------------- claims on sticky lookups

\* The entry of key k in sticky map m is past its expiry.
ExpiredEntry(m, k) == k \in DOMAIN m /\ m[k].expiresAt <= now

\* C31: when getPreferredPeer finds an entry whose expiry time has passed, it
\* treats it as a miss and removes that entry from its keyspace, so that the
\* size count of the keyspace decreases without waiting for the sweep.
C31_LazyDiscard ==
  [][(ev'.op = "getPreferredPeer" /\ ~ev'.threw) =>
       LET pk == PayerKeyOf(ev'.body)
           hk == HeaderKeyOf(ev'.body)
       IN /\ ExpiredEntry(byPayer, pk) =>
               /\ pk \notin DOMAIN byPayer'
               /\ stickySize(byPayer', byHeader').payers < stickySize(byPayer, byHeader).payers
          /\ (~LiveEntry(byPayer, pk) /\ ExpiredEntry(byHeader, hk)) =>
               /\ hk \notin DOMAIN byHeader'
               /\ stickySize(byPayer', byHeader').headers
                    < stickySize(byPayer, byHeader).headers]_vars

\* C32: for every request body and verify response body, fields of a
\* non-string type included, recordSelection and getPreferredPeer return
\* normally: neither call raises.
C32_ExtractionNeverThrows ==
  ev.op \in {"recordSelection", "getPreferredPeer"} => ~ev.threw

\* C33: for every request body and verify response from which recordSelection
\* extracted a payer identity, a getPreferredPeer call on the same request
\* body right after it returns the recorded peer, also when the payer of the
\* verify response differs from authorization.from of the request.
C33_ResponsePayerFound ==
  [][(/\ ev.op = "recordSelection"
      /\ ClaimedPayer(ev.body, ev.response).t = "string"
      /\ ClaimedPayer(ev.body, ev.response).v # <<>>
      /\ ev'.op = "getPreferredPeer"
      /\ ev'.body = ev.body)
       => /\ ~ev'.threw
          /\ ev'.peer = ev.peer]_vars

\* ------------------------------------------------- claims on outbound calls

\* C34: every network call the system makes carries an explicit timeout that
\* aborts it; hence GET /supported eventually answers even if one active peer
\* never responds to its capability-discovery call.
C34_SupportedAnswers == (supported.pc = "waiting") ~> (supported.pc = "done")

\* ------------------------------------------------- claims on the sweeps

\* Every sticky entry of map m is removed less than one cleanup interval
\* after its expiry.
SweptInTime(m) == \A k \in DOMAIN m : now - m[k].expiresAt < 30000

\* C35: while a PeerRegistry or StickyRouter constructed with auto-cleanup has
\* not been destroyed, the background sweep runs every 30 s, so every registry
\* entry older than 120000 ms and every sticky entry past its expiry is gone
\* from its map within one cleanup interval after it expired, with no
\* explicit cleanup() call and no lookup.
C35_MemoryBounded ==
  /\ ~destroyed.sticky =>
       /\ stickyTimer # NoTimer /\ stickyTimer - now <= 30000
       /\ SweptInTime(byPayer) /\ SweptInTime(byHeader)
  /\ ~destroyed.registry =>
       /\ registryTimer # NoTimer /\ registryTimer - now <= 30000
       /\ \A i \in 1..Len(registered) : now - registered[i].lastSeenMs <= 120000 + 30000

\* Neither component was destroyed, a sticky entry and a registry entry were
\* written, and the timers have removed both.
C35_Witness ==
  /\ ~destroyed.sticky /\ ~destroyed.registry
  /\ DOMAIN written.payer # {}
  /\ byPayer = EmptyMap
  /\ DOMAIN beats # {}
  /\ registered = <<>>

\* C36: at any instant, running PeerRegistry.cleanup() does not change the
\* result of getActivePeers at that instant, and running StickyRouter.cleanup()
\* does not change the result of getPreferredPeer for any request body: a
\* sweep removes only entries the lookups already treat as absent, the two
\* agreeing on the expiry boundary.
C36_SweepTransparent ==
  /\ \A staticPeers \in StaticLists :
       getActivePeers(registryCleanup(registered, now), staticPeers, now)
         = getActivePeers(registered, staticPeers, now)
  /\ \A body \in StickyBodies :
       getPreferredPeer(stickyCleanup(byPayer, now), stickyCleanup(byHeader, now), body, now)
         = getPreferredPeer(byPayer, byHeader, body, now)

\* A sweep at this instant removes a sticky entry and a registry entry.
C36_Witness ==
  /\ stickyCleanup(byPayer, now) # byPayer
  /\ stickyCleanup(byHeader, now) # byHeader
  /\ registryCleanup(registered, now) # registered

\* ------------------------------------------------- claims on the sticky frame

\* The handler in slot r takes a step.
StepOf(r) == req'[r] # req[r]

\* The step processes a 200 from a peer for the request in slot r.
Got200(r) ==
  \E k \in Pending(req[r]) :
    /\ req'[r].calls[k].out = "response"
    /\ req'[r].calls[k].resp.status = 200

StickyUnchanged == byPayer' = byPayer /\ byHeader' = byHeader

\* No step of a settle handler, and no step of a verify handler but the one
\* that processes a 200, writes, refreshes or removes a sticky entry.
StickyFrame ==
  \A r \in DOMAIN req :
    /\ (StepOf(r) /\ (req[r].op = "settle" \/ req'[r].op = "settle")) => StickyUnchanged
    /\ (StepOf(r) /\ (req[r].op = "verify" \/ req'[r].op = "verify") /\ ~Got200(r))
         => StickyUnchanged

\* The settle request in slot a has the body of the one that arrives in slot
\* c; the verify of that body had succeeded on peer x when it arrived and it
\* was sent first to x; no verify request was handled since and the sticky
\* entry for the body is live.
EarlierSettle(a, c, x) ==
  /\ a # c
  /\ req[a].op = "settle"
  /\ req[a].inbound = req'[c].inbound
  /\ req[a].pre.peer = x
  /\ req[a].pre.body = req[a].inbound
  /\ lastOk = req[a].pre
  /\ Len(req[a].calls) >= 1
  /\ req[a].calls[1].peer = x
  /\ getPreferredPeer(byPayer, byHeader, req[a].body, now).peer = x

SentFirstTo(c, x) == Len(req'[c].calls) >= 1 /\ req'[c].calls[1].peer = x

KeepAliveTicks == 5

\* The time on the gateway's clock at which the node starts its emitter.
KeepAliveStarts == {0, 1}

\* POST /register of the watched gateway is answered less than this long
\* after it was sent.
RegisterLatency == 90000

\* How long the watched gateway takes to answer a POST /register: no time,
\* or the longest time below RegisterLatency.
RegisterLatencies == {0, RegisterLatency - 1}

\* How long opts.kindsProvider, and the gateway before the watched one, take
\* when they answer: no time, or as long as an entry of the registry lives.
OtherDelays == {0, REGISTRY_TTL_MS}

\* The gateway that is watched.
Gateway == Url("http://", "G", 0)

\* The nodes: whether opts.kindsProvider is set, and opts.gatewayUrls, with
\* or without a gateway before the watched one.
KeepAliveNodes ==
  {<<FALSE, <<Gateway>>>>, <<TRUE, <<Gateway>>>>, <<FALSE, <<Url("http://", "H", 0), Gateway>>>>}

\* The POSTs to the watched gateway that are not answered yet.
PendingRegisters ==
  IF ~registrar.started THEN {}
  ELSE {registrar.beats[b].sent[registrar.beats[b].gw] :
          b \in {c \in 1..Len(registrar.beats) :
                   /\ registrar.beats[c].pc = "post"
                   /\ registrar.beats[c].sent[registrar.beats[c].gw].to = Gateway}}

\* The setInterval callback: heartbeat().
KeepAliveTick ==
  /\ registrar.started
  /\ TimerDue(registrar.timer)
  /\ registrar.ticks < KeepAliveTicks
  /\ registrar' = heartbeat([registrar EXCEPT !.timer = @ + registrar.interval,
                                              !.ticks = @ + 1], now)
  /\ ev' = [op |-> "heartbeat"]
  /\ UNCHANGED <<now, httpPeers, byPayer, byHeader, stickyTimer, registered, registryTimer>>
  /\ UNCHANGED gatewayVars
  /\ UNCHANGED <<written, beats, destroyed, calls, supported>>

\* The watched gateway handles the POST /register of heartbeat number b and
\* the fetch resolves with its response.
KeepAliveRegister(b) ==
  /\ registrar.started
  /\ b \in 1..Len(registrar.beats)
  /\ registrar.beats[b].pc = "post"
  /\ LET post == registrar.beats[b].sent[registrar.beats[b].gw]
         url == registerUrl(UrlField("string", 0, post.url, 0))
     IN /\ post.to = Gateway
        /\ now - post.at \in RegisterLatencies
        /\ IF validRegisterUrl(url)
             THEN /\ registered' = register(registered, url.url, post.kinds, now)
                  /\ lastRegister' = [ErrorReply(200, "") EXCEPT !.origin = "ok"]
             ELSE /\ registered' = registered
                  /\ lastRegister' = ErrorReply(400, "Invalid url")
        /\ ev' = [op |-> "POST /register", url |-> post.url, kinds |-> post.kinds]
  /\ registers' = registers + 1
  /\ registrar' = [registrar EXCEPT
                     !.beats[b] = nextPost(registrar, [@ EXCEPT !.sent[@.gw].out = "response"])]
  /\ UNCHANGED <<now, httpPeers, byPayer, byHeader, stickyTimer, registryTimer, req,
                 arrived, lastOk>>
  /\ UNCHANGED <<written, beats, destroyed, calls, supported>>

\* The fetch of heartbeat number b to the gateway before the watched one
\* settles.
KeepAliveOtherSettles(b, out) ==
  /\ registrar.started
  /\ b \in 1..Len(registrar.beats)
  /\ registrar.beats[b].pc = "post"
  /\ registrar.beats[b].sent[registrar.beats[b].gw].to # Gateway
  /\ now - registrar.beats[b].sent[registrar.beats[b].gw].at \in OtherDelays
  /\ PostSettles(b, out)

\* opts.kindsProvider resolves with an array for heartbeat number b.
KeepAliveKinds(b) ==
  /\ registrar.started
  /\ b \in 1..Len(registrar.beats)
  /\ now - registrar.beats[b].begunAt \in OtherDelays
  /\ KindsSettle(b, Provided("array", Kinds(<<"exact">>)))

\* Time passes up to the next thing that is due: the gateway's sweep, the
\* emitter's tick, or the last millisecond at which the watched gateway
\* answers a POST it has received.
KeepAliveClock ==
  /\ registrar.started
  /\ registrar.timer # NoTimer
  /\ registrar.ticks < KeepAliveTicks
  /\ LET due == {registryTimer, registrar.timer}
                  \cup {p.at + RegisterLatency - 1 : p \in PendingRegisters}
     IN /\ \A t \in due : now < t
        /\ now' = CHOOSE t \in due : \A u \in due : t <= u
  /\ ev' = [op |-> "advance"]
  /\ UNCHANGED <<httpPeers, byPayer, byHeader, stickyTimer, registered, registryTimer>>
  /\ UNCHANGED gatewayVars
  /\ UNCHANGED <<written, beats, destroyed, calls>>
  /\ UNCHANGED edgeVars

KeepAliveInit ==
  /\ now \in KeepAliveStarts
  /\ httpPeers = <<>>
  /\ byPayer = EmptyMap
  /\ byHeader = EmptyMap
  /\ stickyTimer = NoTimer
  /\ registered = <<>>
  /\ registryTimer = startCleanup(TRUE, 0)
  /\ req = [r \in Slots |-> IdleReq]
  /\ arrived = 0
  /\ registers = 0
  /\ lastRegister = NoReply
  /\ lastOk = NoOk
  /\ ev = NoEvent
  /\ written = NoWrites
  /\ beats = NoBeats
  /\ destroyed = NotDestroyed
  /\ calls = 0
  /\ supported = NoAggregation
  /\ registrar = NoRegistrar

KeepAliveNext ==
  \/ \E node \in KeepAliveNodes : StartRegistration(NoIntervalMs, node[1], node[2])
  \/ KeepAliveTick
  \/ \E b \in 1..(KeepAliveTicks + 1) : KeepAliveKinds(b)
  \/ \E b \in 1..(KeepAliveTicks + 1) : KeepAliveRegister(b)
  \/ \E b \in 1..(KeepAliveTicks + 1) : KeepAliveOtherSettles(b, "response")
  \/ RegistryTimerFires
  \/ StopRegistration
  \/ KeepAliveClock

KeepAliveSpec == KeepAliveInit /\ [][KeepAliveNext]_vars

\* ---------------------------------------------------- claims on keep-alive

\* The watched gateway has answered a POST /register of the node with 200.
HasRegistered ==
  /\ registrar.started
  /\ \E b \in 1..Len(registrar.beats) : \E i \in 1..Len(registrar.beats[b].sent) :
       /\ registrar.beats[b].sent[i].to = Gateway
       /\ registrar.beats[b].sent[i].out = "response"

\* The node is in the active peer set of the watched gateway.
NodeActive ==
  normalizeUrl(registrar.nodeBaseUrl) \in SeqToSet(getActivePeers(registered, httpPeers, now))

\* C38: a node whose emitter runs with the default interval of 30 s against
\* a gateway that answers every POST /register in less than 90 s is, from
\* its first successful registration until stop() is called, in the
\* gateway's active peer set at every moment, however the sweeps fall.
C38_HeartbeatKeepsAlive ==
  (HasRegistered /\ ~registrar.stopped) => NodeActive

\* The same for a node without a kindsProvider and with the watched gateway
\* as the only one: every POST is sent at its tick.
C38_AliveWhenSentAtTick ==
  (HasRegistered /\ ~registrar.stopped /\ ~registrar.hasProvider
     /\ Len(registrar.gateways) = 1) => NodeActive

\* A registration of the node that is 119999 ms old while the emitter runs.
C38_Witness ==
  /\ HasRegistered /\ ~registrar.stopped /\ ~registrar.hasProvider
  /\ Len(registrar.gateways) = 1
  /\ \E i \in 1..Len(registered) : now - registered[i].lastSeenMs = REGISTRY_TTL_MS - 1

\* ------------------------------------------------ urls that end in slashes

\* The urls register is called with: a peer with no, one and two trailing
\* slashes.
SlashUrls == {PeerB, Url("http://", "B", 1), Url("http://", "B", 2)}

\* The static lists getActivePeers is called with.
SlashLists == {<<>>, <<Url("http://", "A", 1), PeerA>>, <<Url("http://", "A", 2)>>}

SlashNext ==
  \/ \E t \in Instants(RegistryIntervals, REGISTRY_TTL_MS) : Advance(t)
  \/ \E url \in SlashUrls, kinds \in RegisterKinds : CallRegister(url, kinds)
  \/ \E staticPeers \in SlashLists : CallGetActivePeers(staticPeers)
  \/ RegistryTimerFires

SlashSpec == RegistryInit /\ [][SlashNext]_vars

\* ------------------------------------------------ claims on normalization

\* Urls u and v are the same but for their trailing slashes.
SamePeer(u, v) == u.scheme = v.scheme /\ u.host = v.host

\* C39: no url of the active peer set ends with a slash, whatever the
\* static and registered urls are (urls ending in more than one slash
\* included), and urls that differ only by a trailing slash give one
\* element of the active peer set, so one target for verify and settle.
C39_NoTrailingSlash ==
  ev.op = "getActivePeers" =>
    /\ \A i \in 1..Len(ev.out) : ev.out[i].slashes = 0
    /\ \A i, j \in 1..Len(ev.out) : SamePeer(ev.out[i], ev.out[j]) => i = j

\* The same for urls that end in at most one slash.
C39_OneSlashStripped ==
  (/\ ev.op = "getActivePeers"
   /\ \A i \in 1..Len(ev.staticPeers) : ev.staticPeers[i].slashes <= 1
   /\ \A i \in 1..Len(registered) : registered[i].url.slashes <= 1) =>
    /\ \A i \in 1..Len(ev.out) : ev.out[i].slashes = 0
    /\ \A i, j \in 1..Len(ev.out) : SamePeer(ev.out[i], ev.out[j]) => i = j

\* B is registered with and without a trailing slash and listed once.
C39_Witness ==
  /\ ev.op = "getActivePeers"
  /\ \E i, j \in 1..Len(registered) :
       /\ registered[i].url = PeerB /\ registered[j].url = Url("http://", "B", 1)
       /\ now - registered[i].lastSeenMs <= REGISTRY_TTL_MS
       /\ now - registered[j].lastSeenMs <= REGISTRY_TTL_MS
  /\ Len(SelectSeq(ev.out, LAMBDA u : SamePeer(u, PeerB))) = 1

====
